---------------------------- MODULE Spec2Model ----------------------------
(***************************************************************************)
(* Model of VoltrAlertService (src/src/alert-service.ts): the log-line    *)
(* decoder, the event classifier, the sliding-window frequency tracker,    *)
(* the rate limiter, the Telegram deliveries and the periodic maintenance  *)
(* tasks.                                                                  *)
(*                                                                         *)
(* Time is the value of Date.now() in milliseconds.  The handler of one    *)
(* log line runs synchronously, so one event is one atomic step taken at   *)
(* one clock value; the clock advances between steps.                      *)
(***************************************************************************)
EXTENDS Integers, Sequences, FiniteSets, TLC

VARIABLES
    now,          \* Date.now()
    eventCounts,  \* this.eventCounts : Map<string, number[]>
    lastAlerts,   \* this.lastAlerts  : Map<string, number>
    lastLine,     \* the line handed to the last processLogLine call, <<>> if none
    lastEvent,    \* the event handled by the last handleVaultEvent call, <<>> if none
    rate,         \* events.length as read by the last trackEventFrequency call
    candidates,   \* alerts handed to sendInfoAlert / sendCriticalAlert by the last event
    decisions,    \* the shouldRateLimit call made for each of those candidates
    sent,         \* sendTelegramMessage calls started by the last event
    inFlight,     \* axios.post calls that have not settled yet
    recorded,     \* history: every time at which an event of a frequency key was tracked
    admitted,     \* history: every time at which an alert of a class key was admitted
    settled,      \* the delivery whose axios.post settled in the last step, <<>> if none
    failed,       \* history: the deliveries whose axios.post threw or was answered not ok
    nEvents,      \* number of events handled so far
    nTicks,       \* number of clock advances so far
    environment,  \* what the process finds: whether the log file exists, the bot token
    lifecycle     \* what the process has done to its watcher, timers and itself, in order

vars == <<now, eventCounts, lastAlerts, lastLine, lastEvent, rate, candidates,
          decisions, sent, inFlight, settled, failed, recorded, admitted, nEvents, nTicks,
          environment, lifecycle>>

-----------------------------------------------------------------------------
(* CONFIG *)

highFrequencyEvents == 10
highFrequencyWindow == 60000
infoDelay == 30000
criticalDelay == 300000
maxAge == 86400000

-----------------------------------------------------------------------------
(* JavaScript numbers.  A number is finite (a fraction n/d with d > 0),    *)
(* Infinity, -Infinity or NaN.  The payload values are finite; division by *)
(* zero is what produces the others.                                       *)

RECURSIVE GCD(_, _)
GCD(a, b) == IF b = 0 THEN a ELSE GCD(b, a % b)

AbsInt(i) == IF i < 0 THEN -i ELSE i

Frac(n, d) ==
    LET g == GCD(AbsInt(n), AbsInt(d))
        s == IF d < 0 THEN -1 ELSE 1
    IN  [k |-> "fin", n |-> (s * n) \div g, d |-> (s * d) \div g]

Fin(i) == [k |-> "fin", n |-> i, d |-> 1]
Infinity == [k |-> "inf", n |-> 0, d |-> 1]
NegInfinity == [k |-> "ninf", n |-> 0, d |-> 1]
NaN == [k |-> "nan", n |-> 0, d |-> 1]

IsFinite(x) == x.k = "fin"

\* a - b on finite numbers
Sub(a, b) == Frac(a.n * b.d - b.n * a.d, a.d * b.d)

\* a / b on finite numbers: x/0 is +-Infinity, 0/0 is NaN
Div(a, b) ==
    IF b.n = 0
    THEN IF a.n = 0 THEN NaN ELSE IF a.n > 0 THEN Infinity ELSE NegInfinity
    ELSE Frac(a.n * b.d, a.d * b.n)

\* x * f for a finite f > 0
Mul(x, f) == IF IsFinite(x) THEN Frac(x.n * f.n, x.d * f.d) ELSE x

\* Math.abs
Abs(x) ==
    IF IsFinite(x) THEN [x EXCEPT !.n = AbsInt(x.n)]
    ELSE IF x.k = "ninf" THEN Infinity ELSE x

\* x > y for a finite y: every comparison with NaN is false
Gt(x, y) ==
    CASE x.k = "nan"  -> FALSE
      [] x.k = "inf"  -> TRUE
      [] x.k = "ninf" -> FALSE
      [] OTHER        -> x.n * y.d > y.n * x.d

\* x >= y for a finite y
Ge(x, y) ==
    CASE x.k = "nan"  -> FALSE
      [] x.k = "inf"  -> TRUE
      [] x.k = "ninf" -> FALSE
      [] OTHER        -> x.n * y.d >= y.n * x.d

\* a ?? b : b when a is null or undefined.  An optional field is <<>> or <<v>>.
Coalesce(a, b) == IF a = <<>> THEN b ELSE a[1]

\* `${a}` in a template literal for an optional string: a missing property
\* prints as "undefined".  The keys built from template literals are kept as
\* tuples of the printed parts.
Template(a) == IF a = <<>> THEN "undefined" ELSE a[1]

\* CONFIG.thresholds: fractions of the vault's total value
largeVaultDepositPercent == Frac(1, 10)
largeVaultWithdrawalPercent == Frac(1, 10)
largeStrategyMovePercent == Frac(1, 10)
largeStrategyPnlPercent == Frac(1, 100)

-----------------------------------------------------------------------------
(* Maps *)

Has(m, key) == key \in DOMAIN m
Set(m, key, v) == (key :> v) @@ m
Delete(m, keys) == [k \in DOMAIN m \ keys |-> m[k]]
EmptyMap == << >>

-----------------------------------------------------------------------------
(* Formatter.  A message is the record of what its lines print.  The user, *)
(* strategy and manager lines print fields the alerts of this model do     *)
(* not carry and are not part of the record.                               *)

\* |x| * 10^digits rounded to the nearest integer, halves upwards
Scaled(x, digits) ==
    LET p == CASE digits = 1 -> 10 [] digits = 2 -> 100 [] OTHER -> 1000
    IN  (2 * AbsInt(x.n) * p + x.d) \div (2 * x.d)

\* x.toFixed(digits): "NaN", "Infinity" and "-Infinity" for the others
toFixed(x, digits) ==
    IF IsFinite(x)
    THEN [k |-> "fin", negative |-> x.n < 0, digits |-> digits, units |-> Scaled(x, digits)]
    ELSE [k |-> x.k, negative |-> x.k = "ninf", digits |-> 0, units |-> 0]

\* x.toLocaleString(): at most three fraction digits
toLocaleString(x) == toFixed(x, 3)

\* shortAddress(addr): "Unknown" for a missing or empty address, else
\* addr.slice(0, 8) and addr.slice(-8), which are both the whole address for
\* the addresses of this model (shorter than 8 characters)
shortAddress(addr) ==
    IF addr = <<>> \/ addr = <<"">> THEN <<"Unknown">> ELSE <<addr[1], "...", addr[1]>>

\* new Date().toLocaleTimeString() at Date.now() = t: the time of day in seconds
toLocaleTimeString(t) == (t \div 1000) % 86400

\* new Date().toLocaleString() at Date.now() = t: date and time in seconds
toLocaleDateTimeString(t) == t \div 1000

\* formatInfoMessage(data) called at Date.now() = t
formatInfoMessage(data, t) ==
    LET time == toLocaleTimeString(t)
        changeText == [up |-> Ge(data.percentageChange, Fin(0)),
                       percent |-> toFixed(data.percentageChange, 2)]
        formatPnL == [gain |-> Ge(data.pnl, Fin(0)),
                      pnl |-> toLocaleString(data.pnl),
                      percent |-> toFixed(data.pnlPercent, 2)]
        plain(title) == [title |-> title, amount |-> toLocaleString(data.amount),
                         change |-> changeText, pnl |-> <<>>,
                         vault |-> shortAddress(data.vault), time |-> time]
        withPnL(title) == [title |-> title, amount |-> toLocaleString(data.amount),
                           change |-> changeText, pnl |-> <<formatPnL>>,
                           strategy |-> shortAddress(data.strategy),
                           vault |-> shortAddress(data.vault), time |-> time]
    IN  CASE data.type = "vault_deposit" -> plain("Vault Deposit")
          [] data.type = "vault_withdrawal" -> plain("Vault Withdrawal")
          [] data.type = "strategy_deposit" -> withPnL("Strategy Deposit")
          [] data.type = "strategy_withdrawal" -> withPnL("Strategy Withdrawal")
          [] data.type = "direct_strategy_withdrawal" ->
                 withPnL("Direct Strategy Withdrawal")
          [] OTHER -> [title |-> "Vault Event", type |-> data.type]

\* the alert types that start with "large_", and those of them that include
\* "deposit" and "vault"
StartsWithLarge == {"large_vault_deposit", "large_vault_withdrawal",
                    "large_strategy_deposit", "large_strategy_withdrawal"}
IncludesDeposit == {"large_vault_deposit", "large_strategy_deposit"}
IncludesVault == {"large_vault_deposit", "large_vault_withdrawal"}

\* a mutated critical formatter without the high-frequency layout
formatCriticalMessageNoFrequency(data, t) ==
    LET time == toLocaleDateTimeString(t)
    IN  IF data.type \in StartsWithLarge
        THEN [title |-> <<"LARGE",
                          IF data.type \in IncludesVault THEN "VAULT" ELSE "STRATEGY",
                          IF data.type \in IncludesDeposit THEN "DEPOSIT" ELSE "WITHDRAWAL">>,
              amount |-> toLocaleString(data.amount),
              percentage |-> toFixed(data.percentage, 2),
              threshold |-> data.threshold,
              vault |-> shortAddress(data.vault), time |-> time]
        ELSE IF data.type = "strategy_significant_pnl"
        THEN [title |-> <<"STRATEGY SIGNIFICANT PnL",
                          IF Ge(data.pnl, Fin(0)) THEN "GAIN" ELSE "LOSS">>,
              pnl |-> toLocaleString(data.pnl),
              pnlPercent |-> toFixed(data.pnlPercent, 2),
              amount |-> toLocaleString(data.amount),
              ratio |-> toFixed(Mul(data.pnlToAmountRatio, Fin(100)), 1),
              threshold |-> toFixed(Mul(data.threshold, Fin(100)), 1),
              strategy |-> shortAddress(data.strategy),
              vault |-> shortAddress(data.vault), time |-> time]
        ELSE [title |-> <<"UNKNOWN CRITICAL EVENT">>, type |-> data.type]

\* formatCriticalMessage(data) called at Date.now() = t
formatCriticalMessage(data, t) ==
    LET time == toLocaleDateTimeString(t)
    IN  IF data.type \in StartsWithLarge
        THEN [title |-> <<"LARGE",
                          IF data.type \in IncludesVault THEN "VAULT" ELSE "STRATEGY",
                          IF data.type \in IncludesDeposit THEN "DEPOSIT" ELSE "WITHDRAWAL">>,
              amount |-> toLocaleString(data.amount),
              percentage |-> toFixed(data.percentage, 2),
              threshold |-> data.threshold,
              vault |-> shortAddress(data.vault), time |-> time]
        ELSE IF data.type = "strategy_significant_pnl"
        THEN [title |-> <<"STRATEGY SIGNIFICANT PnL",
                          IF Ge(data.pnl, Fin(0)) THEN "GAIN" ELSE "LOSS">>,
              pnl |-> toLocaleString(data.pnl),
              pnlPercent |-> toFixed(data.pnlPercent, 2),
              amount |-> toLocaleString(data.amount),
              ratio |-> toFixed(Mul(data.pnlToAmountRatio, Fin(100)), 1),
              threshold |-> toFixed(Mul(data.threshold, Fin(100)), 1),
              strategy |-> shortAddress(data.strategy),
              vault |-> shortAddress(data.vault), time |-> time]
        ELSE IF data.type = "high_frequency"
        THEN [title |-> <<"HIGH FREQUENCY ACTIVITY">>,
              eventType |-> data.eventType, rate |-> data.rate,
              threshold |-> data.threshold,
              vault |-> shortAddress(data.vault), time |-> time]
        ELSE [title |-> <<"UNKNOWN CRITICAL EVENT">>, type |-> data.type]

-----------------------------------------------------------------------------
(* Rate limiter *)

\* a mutated limiter that also suppresses the attempt made exactly `delay` later
shouldRateLimitInclusive(la, key, delay, t) ==
    LET lastAlert == IF Has(la, key) THEN la[key] ELSE 0
    IN  IF lastAlert # 0 /\ t - lastAlert <= delay
        THEN [limited |-> TRUE, lastAlerts |-> la]
        ELSE [limited |-> FALSE, lastAlerts |-> Set(la, key, t)]

\* a mutated limiter that restarts the cooldown on a suppressed attempt
shouldRateLimitTouching(la, key, delay, t) ==
    LET lastAlert == IF Has(la, key) THEN la[key] ELSE 0
    IN  IF lastAlert # 0 /\ t - lastAlert < delay
        THEN [limited |-> TRUE, lastAlerts |-> Set(la, key, t)]
        ELSE [limited |-> FALSE, lastAlerts |-> Set(la, key, t)]

\* a mutated limiter that leaves the timestamp to be stored on delivery
shouldRateLimitUnstamped(la, key, delay, t) ==
    LET lastAlert == IF Has(la, key) THEN la[key] ELSE 0
    IN  IF lastAlert # 0 /\ t - lastAlert < delay
        THEN [limited |-> TRUE, lastAlerts |-> la]
        ELSE [limited |-> FALSE, lastAlerts |-> la]

\* shouldRateLimit(key, delay) at Date.now() = t on the map la: the returned
\* boolean and the map afterwards.  `lastAlert &&` is false for undefined and 0.
shouldRateLimit(la, key, delay, t) ==
    LET lastAlert == IF Has(la, key) THEN la[key] ELSE 0
    IN  IF lastAlert # 0 /\ t - lastAlert < delay
        THEN [limited |-> TRUE, lastAlerts |-> la]
        ELSE [limited |-> FALSE, lastAlerts |-> Set(la, key, t)]

\* The state threaded through the alerts one event sends.
Sending(la) == [lastAlerts |-> la, candidates |-> <<>>, decisions |-> <<>>, sent |-> <<>>]

\* a mutated send whose key names the strategy in place of the vault
sendAlertPerStrategy(st, alertData, severity, delay, disableNotification, t) ==
    LET key == <<severity, alertData.type, Template(alertData.strategy)>>
        r   == shouldRateLimit(st.lastAlerts, key, delay, t)
    IN  [lastAlerts |-> r.lastAlerts,
         candidates |-> Append(st.candidates, [severity |-> severity, alert |-> alertData]),
         decisions  |-> Append(st.decisions,
                           [key |-> key, delay |-> delay, at |-> t,
                            had |-> Has(st.lastAlerts, key),
                            last |-> IF Has(st.lastAlerts, key) THEN st.lastAlerts[key] ELSE 0,
                            limited |-> r.limited]),
         sent       |-> IF r.limited THEN st.sent
                        ELSE Append(st.sent,
                                 [key |-> key,
                                  text |-> IF severity = "info"
                                           THEN formatInfoMessage(alertData, t)
                                           ELSE formatCriticalMessage(alertData, t),
                                  disable_notification |-> disableNotification])]

\* a mutated send whose high-frequency key names the event kind
sendAlertPerEventType(st, alertData, severity, delay, disableNotification, t) ==
    LET key == <<severity,
                  IF alertData.type = "high_frequency" THEN alertData.eventType
                  ELSE alertData.type,
                  Template(alertData.vault)>>
        r   == shouldRateLimit(st.lastAlerts, key, delay, t)
    IN  [lastAlerts |-> r.lastAlerts,
         candidates |-> Append(st.candidates, [severity |-> severity, alert |-> alertData]),
         decisions  |-> Append(st.decisions,
                           [key |-> key, delay |-> delay, at |-> t,
                            had |-> Has(st.lastAlerts, key),
                            last |-> IF Has(st.lastAlerts, key) THEN st.lastAlerts[key] ELSE 0,
                            limited |-> r.limited]),
         sent       |-> IF r.limited THEN st.sent
                        ELSE Append(st.sent,
                                 [key |-> key,
                                  text |-> IF severity = "info"
                                           THEN formatInfoMessage(alertData, t)
                                           ELSE formatCriticalMessage(alertData, t),
                                  disable_notification |-> disableNotification])]

\* a mutated send whose key leaves the alert type out
sendAlertPerVault(st, alertData, severity, delay, disableNotification, t) ==
    LET key == <<severity, "alert", Template(alertData.vault)>>
        r   == shouldRateLimit(st.lastAlerts, key, delay, t)
    IN  [lastAlerts |-> r.lastAlerts,
         candidates |-> Append(st.candidates, [severity |-> severity, alert |-> alertData]),
         decisions  |-> Append(st.decisions,
                           [key |-> key, delay |-> delay, at |-> t,
                            had |-> Has(st.lastAlerts, key),
                            last |-> IF Has(st.lastAlerts, key) THEN st.lastAlerts[key] ELSE 0,
                            limited |-> r.limited]),
         sent       |-> IF r.limited THEN st.sent
                        ELSE Append(st.sent,
                                 [key |-> key,
                                  text |-> IF severity = "info"
                                           THEN formatInfoMessage(alertData, t)
                                           ELSE formatCriticalMessage(alertData, t),
                                  disable_notification |-> disableNotification])]

\* The common body of sendInfoAlert and sendCriticalAlert: build the class key,
\* ask the limiter, and start the delivery unless limited.
sendAlert(st, alertData, severity, delay, disableNotification, t) ==
    LET key == <<severity, alertData.type, Template(alertData.vault)>>
        r   == shouldRateLimit(st.lastAlerts, key, delay, t)
    IN  [lastAlerts |-> r.lastAlerts,
         candidates |-> Append(st.candidates, [severity |-> severity, alert |-> alertData]),
         decisions  |-> Append(st.decisions,
                           [key |-> key, delay |-> delay, at |-> t,
                            had |-> Has(st.lastAlerts, key),
                            last |-> IF Has(st.lastAlerts, key) THEN st.lastAlerts[key] ELSE 0,
                            limited |-> r.limited]),
         sent       |-> IF r.limited THEN st.sent
                        ELSE Append(st.sent,
                                 [key |-> key,
                                  text |-> IF severity = "info"
                                           THEN formatInfoMessage(alertData, t)
                                           ELSE formatCriticalMessage(alertData, t),
                                  disable_notification |-> disableNotification])]

sendInfoAlert(st, alertData, t) == sendAlert(st, alertData, "info", infoDelay, TRUE, t)

\* a mutated critical send that is delivered silently
sendCriticalAlertSilent(st, alertData, t) ==
    sendAlert(st, alertData, "critical", criticalDelay, TRUE, t)

\* a mutated critical send that uses the informational cooldown
sendCriticalAlertInfoDelay(st, alertData, t) ==
    sendAlert(st, alertData, "critical", infoDelay, FALSE, t)

sendCriticalAlert(st, alertData, t) ==
    sendAlert(st, alertData, "critical", criticalDelay, FALSE, t)

-----------------------------------------------------------------------------
(* Frequency tracker *)

InWindow(events, windowStart) == SelectSeq(events, LAMBDA time : time > windowStart)

\* a mutated tracker whose high-frequency check is strict
trackEventFrequencyStrict(st, ec, event, t) ==
    LET key    == <<event.eventName, Template(event.eventData.vault)>>
        events == Append(IF Has(ec, key) THEN ec[key] ELSE <<>>, t)
        windowStart == t - highFrequencyWindow
    IN  [eventCounts |-> Set(ec, key, InWindow(events, windowStart)),
         rate |-> Len(events),
         st |-> IF Len(events) > highFrequencyEvents
                THEN sendCriticalAlert(st, [type |-> "high_frequency",
                                            eventType |-> event.eventName,
                                            vault |-> event.eventData.vault,
                                            rate |-> Len(events),
                                            threshold |-> highFrequencyEvents], t)
                ELSE st]

\* a mutated tracker that records the event under every stored key
trackEventFrequencyEveryKey(st, ec, event, t) ==
    LET key    == <<event.eventName, Template(event.eventData.vault)>>
        events == Append(IF Has(ec, key) THEN ec[key] ELSE <<>>, t)
        windowStart == t - highFrequencyWindow
        pushed == [k \in DOMAIN ec |-> InWindow(Append(ec[k], t), windowStart)]
    IN  [eventCounts |-> Set(pushed, key, InWindow(events, windowStart)),
         rate |-> Len(events),
         st |-> IF Len(events) >= highFrequencyEvents
                THEN sendCriticalAlert(st, [type |-> "high_frequency",
                                            eventType |-> event.eventName,
                                            vault |-> event.eventData.vault,
                                            rate |-> Len(events),
                                            threshold |-> highFrequencyEvents], t)
                ELSE st]

\* a mutated tracker that also drops the other keys whose windows expired
trackEventFrequencyPruning(st, ec, event, t) ==
    LET key    == <<event.eventName, Template(event.eventData.vault)>>
        events == Append(IF Has(ec, key) THEN ec[key] ELSE <<>>, t)
        windowStart == t - highFrequencyWindow
        expired == {k \in DOMAIN ec : InWindow(ec[k], windowStart) = <<>>}
    IN  [eventCounts |-> Set(Delete(ec, expired), key, InWindow(events, windowStart)),
         rate |-> Len(events),
         st |-> IF Len(events) >= highFrequencyEvents
                THEN sendCriticalAlert(st, [type |-> "high_frequency",
                                            eventType |-> event.eventName,
                                            vault |-> event.eventData.vault,
                                            rate |-> Len(events),
                                            threshold |-> highFrequencyEvents], t)
                ELSE st]

\* a mutated tracker that stores the array it pushed onto, unfiltered
trackEventFrequencyUnfiltered(st, ec, event, t) ==
    LET key    == <<event.eventName, Template(event.eventData.vault)>>
        events == Append(IF Has(ec, key) THEN ec[key] ELSE <<>>, t)
    IN  [eventCounts |-> Set(ec, key, events),
         rate |-> Len(events),
         st |-> IF Len(events) >= highFrequencyEvents
                THEN sendCriticalAlert(st, [type |-> "high_frequency",
                                            eventType |-> event.eventName,
                                            vault |-> event.eventData.vault,
                                            rate |-> Len(events),
                                            threshold |-> highFrequencyEvents], t)
                ELSE st]

\* trackEventFrequency(event) at Date.now() = t.  `events` is the array held by
\* the map with `now` pushed onto it; the map then gets a filtered copy, while
\* the check and the alert read events.length of the array that was pushed to.
trackEventFrequency(st, ec, event, t) ==
    LET key    == <<event.eventName, Template(event.eventData.vault)>>
        events == Append(IF Has(ec, key) THEN ec[key] ELSE <<>>, t)
        windowStart == t - highFrequencyWindow
    IN  [eventCounts |-> Set(ec, key, InWindow(events, windowStart)),
         rate |-> Len(events),
         st |-> IF Len(events) >= highFrequencyEvents
                THEN sendCriticalAlert(st, [type |-> "high_frequency",
                                            eventType |-> event.eventName,
                                            vault |-> event.eventData.vault,
                                            rate |-> Len(events),
                                            threshold |-> highFrequencyEvents], t)
                ELSE st]

-----------------------------------------------------------------------------
(* Handlers.  Each takes the sending state st and returns it after its       *)
(* alerts.  The user, strategy and manager fields are copied from the event  *)
(* into the alerts and decide nothing; they are left out.                    *)

Hundred == Fin(100)

\* a mutated handler that notifies only when the deposit is large
handleVaultDepositQuiet(st, event, t) ==
    LET eventData == event.eventData
        amount == Fin(Coalesce(eventData.userAmountAssetDeposited, 0))
        totalValueBefore == Fin(Coalesce(eventData.vaultAssetTotalValueBefore, 1))
        transactionPercent == Mul(Div(amount, totalValueBefore), Hundred)
    IN  IF Gt(transactionPercent, Mul(largeVaultDepositPercent, Hundred))
        THEN sendCriticalAlert(st,
                 [type |-> "large_vault_deposit", amount |-> amount,
                  percentage |-> transactionPercent,
                  threshold |-> Mul(largeVaultDepositPercent, Hundred),
                  vault |-> eventData.vault], t)
        ELSE st

handleVaultDeposit(st, event, t) ==
    LET eventData == event.eventData
        amount == Fin(Coalesce(eventData.userAmountAssetDeposited, 0))
        totalValueBefore == Fin(Coalesce(eventData.vaultAssetTotalValueBefore, 1))
        totalValueAfter == Fin(Coalesce(eventData.vaultAssetTotalValueAfter, 0))
        percentageChange ==
            Mul(Div(Sub(totalValueAfter, totalValueBefore), totalValueBefore), Hundred)
        transactionPercent == Mul(Div(amount, totalValueBefore), Hundred)
        s1 == sendInfoAlert(st,
                 [type |-> "vault_deposit", amount |-> amount, vault |-> eventData.vault,
                  percentageChange |-> percentageChange], t)
    IN  IF Gt(transactionPercent, Mul(largeVaultDepositPercent, Hundred))
        THEN sendCriticalAlert(s1,
                 [type |-> "large_vault_deposit", amount |-> amount,
                  percentage |-> transactionPercent,
                  threshold |-> Mul(largeVaultDepositPercent, Hundred),
                  vault |-> eventData.vault], t)
        ELSE s1

\* a mutated handler whose large-withdrawal check is not strict
handleVaultWithdrawalInclusive(st, event, t) ==
    LET eventData == event.eventData
        amount == Fin(Coalesce(eventData.userAmountAssetWithdrawn, 0))
        totalValueBefore == Fin(Coalesce(eventData.vaultAssetTotalValueBefore, 1))
        totalValueAfter == Fin(Coalesce(eventData.vaultAssetTotalValueAfter, 0))
        percentageChange ==
            Mul(Div(Sub(totalValueAfter, totalValueBefore), totalValueBefore), Hundred)
        transactionPercent == Mul(Div(amount, totalValueBefore), Hundred)
        s1 == sendInfoAlert(st,
                 [type |-> "vault_withdrawal", amount |-> amount, vault |-> eventData.vault,
                  percentageChange |-> percentageChange], t)
    IN  IF Ge(transactionPercent, Mul(largeVaultWithdrawalPercent, Hundred))
        THEN sendCriticalAlert(s1,
                 [type |-> "large_vault_withdrawal", amount |-> amount,
                  percentage |-> transactionPercent,
                  threshold |-> Mul(largeVaultWithdrawalPercent, Hundred),
                  vault |-> eventData.vault], t)
        ELSE s1

handleVaultWithdrawal(st, event, t) ==
    LET eventData == event.eventData
        amount == Fin(Coalesce(eventData.userAmountAssetWithdrawn, 0))
        totalValueBefore == Fin(Coalesce(eventData.vaultAssetTotalValueBefore, 1))
        totalValueAfter == Fin(Coalesce(eventData.vaultAssetTotalValueAfter, 0))
        percentageChange ==
            Mul(Div(Sub(totalValueAfter, totalValueBefore), totalValueBefore), Hundred)
        transactionPercent == Mul(Div(amount, totalValueBefore), Hundred)
        s1 == sendInfoAlert(st,
                 [type |-> "vault_withdrawal", amount |-> amount, vault |-> eventData.vault,
                  percentageChange |-> percentageChange], t)
    IN  IF Gt(transactionPercent, Mul(largeVaultWithdrawalPercent, Hundred))
        THEN sendCriticalAlert(s1,
                 [type |-> "large_vault_withdrawal", amount |-> amount,
                  percentage |-> transactionPercent,
                  threshold |-> Mul(largeVaultWithdrawalPercent, Hundred),
                  vault |-> eventData.vault], t)
        ELSE s1

\* a mutated strategy handler that skips the PnL check when the amount is zero
StrategyAlertsGuarded(st, event, amountField, infoType, largeType, t) ==
    LET eventData == event.eventData
        amount == Fin(Coalesce(amountField, 0))
        totalValueBefore == Fin(Coalesce(eventData.vaultAssetTotalValueBefore, 1))
        totalValueAfter == Fin(Coalesce(eventData.vaultAssetTotalValueAfter, 0))
        transactionPercent == Mul(Div(amount, totalValueBefore), Hundred)
        pnl == Sub(totalValueAfter, totalValueBefore)
        pnlPercent == Mul(Div(pnl, totalValueBefore), Hundred)
        s1 == sendInfoAlert(st,
                 [type |-> infoType, amount |-> amount, vault |-> eventData.vault,
                  strategy |-> eventData.strategy,
                  percentageChange |-> transactionPercent,
                  pnl |-> pnl, pnlPercent |-> pnlPercent], t)
        pnlToAmountRatio == Abs(Div(pnl, amount))
        s2 == IF amount.n # 0 /\ Gt(pnlToAmountRatio, largeStrategyPnlPercent)
              THEN sendCriticalAlert(s1,
                       [type |-> "strategy_significant_pnl", amount |-> amount,
                        pnl |-> pnl, pnlPercent |-> pnlPercent,
                        pnlToAmountRatio |-> pnlToAmountRatio,
                        threshold |-> largeStrategyPnlPercent,
                        vault |-> eventData.vault, strategy |-> eventData.strategy], t)
              ELSE s1
    IN  IF Gt(transactionPercent, Mul(largeStrategyMovePercent, Hundred))
        THEN sendCriticalAlert(s2,
                 [type |-> largeType, amount |-> amount,
                  percentage |-> transactionPercent,
                  threshold |-> Mul(largeStrategyMovePercent, Hundred),
                  vault |-> eventData.vault, strategy |-> eventData.strategy], t)
        ELSE s2

\* a mutated strategy handler that checks the size only when the PnL is small
StrategyAlertsExclusive(st, event, amountField, infoType, largeType, t) ==
    LET eventData == event.eventData
        amount == Fin(Coalesce(amountField, 0))
        totalValueBefore == Fin(Coalesce(eventData.vaultAssetTotalValueBefore, 1))
        totalValueAfter == Fin(Coalesce(eventData.vaultAssetTotalValueAfter, 0))
        transactionPercent == Mul(Div(amount, totalValueBefore), Hundred)
        pnl == Sub(totalValueAfter, totalValueBefore)
        pnlPercent == Mul(Div(pnl, totalValueBefore), Hundred)
        s1 == sendInfoAlert(st,
                 [type |-> infoType, amount |-> amount, vault |-> eventData.vault,
                  strategy |-> eventData.strategy,
                  percentageChange |-> transactionPercent,
                  pnl |-> pnl, pnlPercent |-> pnlPercent], t)
        pnlToAmountRatio == Abs(Div(pnl, amount))
    IN  IF Gt(pnlToAmountRatio, largeStrategyPnlPercent)
        THEN sendCriticalAlert(s1,
                 [type |-> "strategy_significant_pnl", amount |-> amount,
                  pnl |-> pnl, pnlPercent |-> pnlPercent,
                  pnlToAmountRatio |-> pnlToAmountRatio,
                  threshold |-> largeStrategyPnlPercent,
                  vault |-> eventData.vault, strategy |-> eventData.strategy], t)
        ELSE IF Gt(transactionPercent, Mul(largeStrategyMovePercent, Hundred))
        THEN sendCriticalAlert(s1,
                 [type |-> largeType, amount |-> amount,
                  percentage |-> transactionPercent,
                  threshold |-> Mul(largeStrategyMovePercent, Hundred),
                  vault |-> eventData.vault, strategy |-> eventData.strategy], t)
        ELSE s1

\* the body handleStrategyDeposit and handleStrategyWithdrawal share: they
\* differ in the amount field they read and in the alert types
StrategyAlerts(st, event, amountField, infoType, largeType, t) ==
    LET eventData == event.eventData
        amount == Fin(Coalesce(amountField, 0))
        totalValueBefore == Fin(Coalesce(eventData.vaultAssetTotalValueBefore, 1))
        totalValueAfter == Fin(Coalesce(eventData.vaultAssetTotalValueAfter, 0))
        transactionPercent == Mul(Div(amount, totalValueBefore), Hundred)
        pnl == Sub(totalValueAfter, totalValueBefore)
        pnlPercent == Mul(Div(pnl, totalValueBefore), Hundred)
        s1 == sendInfoAlert(st,
                 [type |-> infoType, amount |-> amount, vault |-> eventData.vault,
                  strategy |-> eventData.strategy,
                  percentageChange |-> transactionPercent,
                  pnl |-> pnl, pnlPercent |-> pnlPercent], t)
        pnlToAmountRatio == Abs(Div(pnl, amount))
        s2 == IF Gt(pnlToAmountRatio, largeStrategyPnlPercent)
              THEN sendCriticalAlert(s1,
                       [type |-> "strategy_significant_pnl", amount |-> amount,
                        pnl |-> pnl, pnlPercent |-> pnlPercent,
                        pnlToAmountRatio |-> pnlToAmountRatio,
                        threshold |-> largeStrategyPnlPercent,
                        vault |-> eventData.vault, strategy |-> eventData.strategy], t)
              ELSE s1
    IN  IF Gt(transactionPercent, Mul(largeStrategyMovePercent, Hundred))
        THEN sendCriticalAlert(s2,
                 [type |-> largeType, amount |-> amount,
                  percentage |-> transactionPercent,
                  threshold |-> Mul(largeStrategyMovePercent, Hundred),
                  vault |-> eventData.vault, strategy |-> eventData.strategy], t)
        ELSE s2

handleStrategyDeposit(st, event, t) ==
    StrategyAlerts(st, event, event.eventData.vaultAmountAssetDeposited,
                   "strategy_deposit", "large_strategy_deposit", t)

handleStrategyWithdrawal(st, event, t) ==
    StrategyAlerts(st, event, event.eventData.vaultAmountAssetWithdrawn,
                   "strategy_withdrawal", "large_strategy_withdrawal", t)

\* a mutated handler that treats a direct withdrawal like a strategy withdrawal
\* of the user's amount, size check included
handleDirectStrategyWithdrawSized(st, event, t) ==
    StrategyAlerts(st, event, event.eventData.userAmountAssetWithdrawn,
                   "direct_strategy_withdrawal", "large_strategy_withdrawal", t)

handleDirectStrategyWithdraw(st, event, t) ==
    LET eventData == event.eventData
        amount == Fin(Coalesce(eventData.userAmountAssetWithdrawn, 0))
        totalValueBefore == Fin(Coalesce(eventData.vaultAssetTotalValueBefore, 1))
        totalValueAfter == Fin(Coalesce(eventData.vaultAssetTotalValueAfter, 0))
        percentageChange ==
            Mul(Div(Sub(totalValueAfter, totalValueBefore), totalValueBefore), Hundred)
        pnl == Sub(totalValueAfter, totalValueBefore)
        pnlPercent == Mul(Div(pnl, totalValueBefore), Hundred)
        s1 == sendInfoAlert(st,
                 [type |-> "direct_strategy_withdrawal", amount |-> amount,
                  vault |-> eventData.vault, strategy |-> eventData.strategy,
                  percentageChange |-> percentageChange,
                  pnl |-> pnl, pnlPercent |-> pnlPercent], t)
        pnlToAmountRatio == Abs(Div(pnl, amount))
    IN  IF Gt(pnlToAmountRatio, largeStrategyPnlPercent)
        THEN sendCriticalAlert(s1,
                 [type |-> "strategy_significant_pnl", amount |-> amount,
                  pnl |-> pnl, pnlPercent |-> pnlPercent,
                  pnlToAmountRatio |-> pnlToAmountRatio,
                  threshold |-> largeStrategyPnlPercent,
                  vault |-> eventData.vault, strategy |-> eventData.strategy], t)
        ELSE s1

\* a mutated switch whose default case falls into the vault-deposit handler
DispatchFallThrough(st, event, t) ==
    CASE event.eventName = "withdrawVaultEvent" -> handleVaultWithdrawal(st, event, t)
      [] event.eventName = "depositStrategyEvent" -> handleStrategyDeposit(st, event, t)
      [] event.eventName = "withdrawStrategyEvent" -> handleStrategyWithdrawal(st, event, t)
      [] event.eventName = "directWithdrawStrategyEvent" ->
             handleDirectStrategyWithdraw(st, event, t)
      [] OTHER -> handleVaultDeposit(st, event, t)

\* the switch of handleVaultEvent
Dispatch(st, event, t) ==
    CASE event.eventName = "depositVaultEvent"  -> handleVaultDeposit(st, event, t)
      [] event.eventName = "withdrawVaultEvent" -> handleVaultWithdrawal(st, event, t)
      [] event.eventName = "depositStrategyEvent" -> handleStrategyDeposit(st, event, t)
      [] event.eventName = "withdrawStrategyEvent" -> handleStrategyWithdrawal(st, event, t)
      [] event.eventName = "directWithdrawStrategyEvent" ->
             handleDirectStrategyWithdraw(st, event, t)
      [] OTHER -> st

\* a mutated handleVaultEvent that tracks the frequency after the handler ran
handleVaultEventTrackLast(la, ec, event, t) ==
    LET tracked == trackEventFrequency(Dispatch(Sending(la), event, t), ec, event, t)
    IN  [eventCounts |-> tracked.eventCounts,
         rate |-> tracked.rate,
         st |-> tracked.st]

\* handleVaultEvent(event) at Date.now() = t on the maps la and ec: the tracker
\* first, then the handler of the event's kind.
handleVaultEvent(la, ec, event, t) ==
    LET tracked == trackEventFrequency(Sending(la), ec, event, t)
    IN  [eventCounts |-> tracked.eventCounts,
         rate |-> tracked.rate,
         st |-> Dispatch(tracked.st, event, t)]

-----------------------------------------------------------------------------
(* Events *)

EventNames == {"depositVaultEvent", "withdrawVaultEvent", "depositStrategyEvent",
               "withdrawStrategyEvent", "directWithdrawStrategyEvent"}

\* an event kind the switch has no case for
UnhandledName == "requestWithdrawVaultEvent"

\* The decoded event of kind `name`: the amount is in the field the handler of
\* that kind reads, the other amount fields are absent.
MakeEvent(name, vault, amount, before, after) ==
    [eventName |-> name,
     eventData |->
        [vault |-> <<vault>>,
         strategy |-> <<>>,
         userAmountAssetDeposited |-> IF name = "depositVaultEvent" THEN amount ELSE <<>>,
         userAmountAssetWithdrawn |->
             IF name \in {"withdrawVaultEvent", "directWithdrawStrategyEvent"}
             THEN amount ELSE <<>>,
         vaultAmountAssetDeposited |-> IF name = "depositStrategyEvent" THEN amount ELSE <<>>,
         vaultAmountAssetWithdrawn |-> IF name = "withdrawStrategyEvent" THEN amount ELSE <<>>,
         vaultAssetTotalValueBefore |-> before,
         vaultAssetTotalValueAfter |-> after]]

\* the amount field the handler of the event's kind reads
AmountOf(event) ==
    CASE event.eventName = "depositVaultEvent" -> event.eventData.userAmountAssetDeposited
      [] event.eventName \in {"withdrawVaultEvent", "directWithdrawStrategyEvent"} ->
             event.eventData.userAmountAssetWithdrawn
      [] event.eventName = "depositStrategyEvent" -> event.eventData.vaultAmountAssetDeposited
      [] event.eventName = "withdrawStrategyEvent" -> event.eventData.vaultAmountAssetWithdrawn
      [] OTHER -> <<>>

Vaults == {"vaultA", "vaultB"}
Amounts == {<<>>, <<0>>, <<100>>, <<150>>}
Befores == {<<>>, <<0>>, <<1000>>}
Afters == {<<>>, <<1000>>, <<1200>>}

StrategyNames == {"depositStrategyEvent", "withdrawStrategyEvent",
                  "directWithdrawStrategyEvent"}

\* strategy moves of 10 percent of the vault whose PnL is 1 and 2 percent of
\* the amount
BoundaryEvents ==
    {MakeEvent(name, "vaultA", <<100>>, <<1000>>, after) :
        name \in StrategyNames, after \in {<<1001>>, <<1002>>}}

\* a deposit of nothing into a vault that holds nothing
EmptyVaultEvents == {MakeEvent("depositVaultEvent", "vaultA", <<0>>, <<0>>, <<0>>)}

\* the event as it is reported for a strategy
OnStrategy(event, strategy) == [event EXCEPT !.eventData.strategy = <<strategy>>]

\* every kind with every payload on every vault
AllEvents ==
    {MakeEvent(name, vault, amount, before, after) :
        name \in EventNames, vault \in Vaults, amount \in Amounts,
        before \in Befores, after \in Afters}
    \cup {MakeEvent(UnhandledName, vault, <<>>, <<1000>>, <<1000>>) : vault \in Vaults}
    \cup BoundaryEvents
    \cup EmptyVaultEvents

-----------------------------------------------------------------------------
(* Log lines.  A text is the JSON text of a value, the empty string, or     *)
(* text that JSON.parse rejects.  An object is a record of its properties,  *)
(* each <<v>>; a property the object lacks reads as <<>>.                   *)

Json(value) == [kind |-> "json", value |-> value]
NotJson == [kind |-> "text"]
EmptyString == [kind |-> "empty"]
Null == [null |-> TRUE]

\* JSON.parse(text): <<value>>, or <<>> when it throws
JSONparse(text) == IF text.kind = "json" THEN <<text.value>> ELSE <<>>

\* object.name
Get(object, name) == IF name \in DOMAIN object THEN object[name] ELSE <<>>

ExpectedService == "voltr-vault-listener"

\* a PM2 log entry with the given message text
LogEntry(message) == [message |-> <<message>>, type |-> <<"out">>]

\* what the listener logs for an event, under the given service tag
Payload(service, event) ==
    [service |-> service, eventName |-> <<event.eventName>>,
     eventData |-> <<event.eventData>>]

\* the line the listener's log gets for an event
LineOf(event) == Json(LogEntry(Json(Payload(<<ExpectedService>>, event))))

\* the event with its payload lacking the vault
WithoutVault(event) == [event EXCEPT !.eventData.vault = <<>>]

\* the event with the empty string as its vault
WithEmptyVault(event) == [event EXCEPT !.eventData.vault = <<"">>]

\* a mutated decoder that does not look at the service tag
processLogLineAnyService(line) ==
    LET logEntry == JSONparse(line)
    IN  IF logEntry = <<>> \/ logEntry[1] = Null THEN <<>>
        ELSE LET message == Get(logEntry[1], "message")
             IN  IF message = <<>> \/ message[1] = EmptyString THEN <<>>
                 ELSE LET eventData == JSONparse(message[1])
                      IN  IF eventData = <<>> \/ eventData[1] = Null THEN <<>>
                          ELSE IF Get(eventData[1], "eventData") # <<>>
                               THEN <<[eventName |-> Get(eventData[1], "eventName")[1],
                                       eventData |-> Get(eventData[1], "eventData")[1]]>>
                               ELSE <<>>

\* processLogLine(line): <<event>> when handleVaultEvent(event) is called, <<>>
\* when the line is dropped.  JSON.parse throws on text that is not JSON and a
\* property read throws on null; the catch block swallows both.
processLogLine(line) ==
    LET logEntry == JSONparse(line)
    IN  IF logEntry = <<>> \/ logEntry[1] = Null THEN <<>>
        ELSE LET message == Get(logEntry[1], "message")
             IN  IF message = <<>> \/ message[1] = EmptyString THEN <<>>
                 ELSE LET eventData == JSONparse(message[1])
                      IN  IF eventData = <<>> \/ eventData[1] = Null THEN <<>>
                          ELSE IF /\ Get(eventData[1], "service") = <<ExpectedService>>
                                  /\ Get(eventData[1], "eventData") # <<>>
                               THEN <<[eventName |-> Get(eventData[1], "eventName")[1],
                                       eventData |-> Get(eventData[1], "eventData")[1]]>>
                               ELSE <<>>

-----------------------------------------------------------------------------
(* Steps *)

FrequencyKey(event) == <<event.eventName, Template(event.eventData.vault)>>

\* the history h with time t added under every key of keys
Logged(h, keys, t) ==
    [k \in DOMAIN h \cup keys |->
        IF k \in keys THEN Append(IF k \in DOMAIN h THEN h[k] ELSE <<>>, t) ELSE h[k]]

NoOutput ==
    /\ lastLine' = <<>>
    /\ lastEvent' = <<>>
    /\ rate' = 0
    /\ candidates' = <<>>
    /\ decisions' = <<>>
    /\ sent' = <<>>
    /\ settled' = <<>>

\* the fields of a VoltrAlertService as its constructor finds them
Fresh ==
    /\ now = 1
    /\ eventCounts = EmptyMap
    /\ lastAlerts = EmptyMap
    /\ lastLine = <<>>
    /\ lastEvent = <<>>
    /\ rate = 0
    /\ candidates = <<>>
    /\ decisions = <<>>
    /\ sent = <<>>
    /\ inFlight = {}
    /\ settled = <<>>
    /\ failed = {}
    /\ recorded = EmptyMap
    /\ admitted = EmptyMap
    /\ nEvents = 0
    /\ nTicks = 0

\* what the start of the service does when the log file exists: the tail is
\* watched, the three timers are set and the signal handlers are installed
Started == <<"watch", "timers", "signals">>

\* the service constructed and started in an environment that has the log
\* file and the bot token
Init ==
    /\ Fresh
    /\ environment = [logFile |-> TRUE, botToken |-> <<"token">>]
    /\ lifecycle = Started

\* process.exit has been called, or an uncaught error has ended the process
Exited == lifecycle # <<>> /\ lifecycle[Len(lifecycle)] \in {"exit(0)", "exit(1)"}

\* the process has started and callbacks still run
Running == lifecycle # <<>> /\ ~Exited

\* Date.now() moves on by d ms
Tick(d) ==
    /\ Running
    /\ now' = now + d
    /\ nTicks' = nTicks + 1
    /\ NoOutput
    /\ UNCHANGED <<environment, lifecycle, eventCounts, lastAlerts, inFlight, failed,
                   recorded, admitted, nEvents>>

\* a mutated sink whose requests go out only after the event's step
InitiatedLater(flight, deliveries, t) == flight

\* the requests in flight once every sendTelegramMessage call of `deliveries`,
\* made at Date.now() = t, has reached its axios.post
Initiated(flight, deliveries, t) ==
    flight \cup {[key |-> deliveries[i].key, at |-> t] : i \in DOMAIN deliveries}

\* handleVaultEvent(event), run to its end: every alert is sent without being
\* awaited, and each send runs on synchronously up to its axios.post
HandleVaultEvent(event) ==
    \E r \in {handleVaultEvent(lastAlerts, eventCounts, event, now)} :
        /\ eventCounts' = r.eventCounts
        /\ lastAlerts' = r.st.lastAlerts
        /\ lastEvent' = <<event>>
        /\ rate' = r.rate
        /\ candidates' = r.st.candidates
        /\ decisions' = r.st.decisions
        /\ sent' = r.st.sent
        /\ inFlight' = Initiated(inFlight, r.st.sent, now)
        /\ settled' = <<>>
        /\ recorded' = Logged(recorded, {FrequencyKey(event)}, now)
        /\ admitted' = Logged(admitted, {r.st.sent[i].key : i \in DOMAIN r.st.sent}, now)
        /\ nEvents' = nEvents + 1
        /\ UNCHANGED <<environment, lifecycle, now, failed, nTicks>>

\* tail "line" -> processLogLine(line): the line is decoded and either handed
\* to handleVaultEvent or dropped
ProcessLogLine(line) ==
    /\ Running
    /\ lastLine' = <<line>>
    /\ \E decoded \in {processLogLine(line)} :
          IF decoded # <<>>
          THEN HandleVaultEvent(decoded[1])
          ELSE /\ lastEvent' = <<>>
               /\ rate' = 0
               /\ candidates' = <<>>
               /\ decisions' = <<>>
               /\ sent' = <<>>
               /\ settled' = <<>>
               /\ UNCHANGED <<environment, lifecycle, now, eventCounts, lastAlerts,
                              inFlight, failed, recorded, admitted, nEvents, nTicks>>

\* what awaiting axios.post can give: a response with ok, a response without,
\* or an exception
Outcomes == {"ok", "not_ok", "error"}

\* a mutated continuation that posts the message again when the request failed
SettleRetry(delivery, outcome) ==
    /\ Running
    /\ delivery \in inFlight
    /\ inFlight' = IF outcome = "ok" THEN inFlight \ {delivery} ELSE inFlight
    /\ settled' = <<[delivery |-> delivery, outcome |-> outcome]>>
    /\ failed' = IF outcome = "ok" THEN failed ELSE failed \cup {delivery}
    /\ lastLine' = <<>>
    /\ lastEvent' = <<>>
    /\ rate' = 0
    /\ candidates' = <<>>
    /\ decisions' = <<>>
    /\ sent' = <<>>
    /\ UNCHANGED <<environment, lifecycle, now, eventCounts, lastAlerts, recorded,
                   admitted, nEvents, nTicks>>

\* a mutated continuation that gives the cooldown back when the request failed
SettleReleases(delivery, outcome) ==
    /\ Running
    /\ delivery \in inFlight
    /\ inFlight' = inFlight \ {delivery}
    /\ settled' = <<[delivery |-> delivery, outcome |-> outcome]>>
    /\ failed' = IF outcome = "ok" THEN failed ELSE failed \cup {delivery}
    /\ lastAlerts' = IF outcome = "ok" THEN lastAlerts ELSE Delete(lastAlerts, {delivery.key})
    /\ lastLine' = <<>>
    /\ lastEvent' = <<>>
    /\ rate' = 0
    /\ candidates' = <<>>
    /\ decisions' = <<>>
    /\ sent' = <<>>
    /\ UNCHANGED <<environment, lifecycle, now, eventCounts, recorded, admitted,
                   nEvents, nTicks>>

\* the continuation of sendTelegramMessage after its await: the response or
\* the exception is at most logged
Settle(delivery, outcome) ==
    /\ Running
    /\ delivery \in inFlight
    /\ inFlight' = inFlight \ {delivery}
    /\ settled' = <<[delivery |-> delivery, outcome |-> outcome]>>
    /\ failed' = IF outcome = "ok" THEN failed ELSE failed \cup {delivery}
    /\ lastLine' = <<>>
    /\ lastEvent' = <<>>
    /\ rate' = 0
    /\ candidates' = <<>>
    /\ decisions' = <<>>
    /\ sent' = <<>>
    /\ UNCHANGED <<environment, lifecycle, now, eventCounts, lastAlerts, recorded,
                   admitted, nEvents, nTicks>>

\* a mutated cleanup that keeps the keys whose windows became empty
cleanEventCountsKeepKeys(ec, t) ==
    LET cutoff == t - highFrequencyWindow
    IN  [key \in DOMAIN ec |-> InWindow(ec[key], cutoff)]

\* the body of the first setInterval callback at Date.now() = t
cleanEventCounts(ec, t) ==
    LET cutoff == t - highFrequencyWindow
        filtered(key) == InWindow(ec[key], cutoff)
        kept == {key \in DOMAIN ec : Len(filtered(key)) # 0}
    IN  [key \in kept |-> filtered(key)]

\* a mutated cleanup that forgets every entry, however recent
cleanLastAlertsAll(la, t) == Delete(la, DOMAIN la)

\* a mutated cleanup that forgets every alert older than the info cooldown
cleanLastAlertsEarly(la, t) == Delete(la, {key \in DOMAIN la : t - la[key] > infoDelay})

\* the body of the second setInterval callback at Date.now() = t
cleanLastAlerts(la, t) == Delete(la, {key \in DOMAIN la : t - la[key] > maxAge})

\* setInterval(..., 60000): the timer's phase against the event stream is
\* arbitrary, so the callback may run at any clock value
FrequencyCleanup ==
    /\ Running
    /\ eventCounts' = cleanEventCounts(eventCounts, now)
    /\ NoOutput
    /\ UNCHANGED <<environment, lifecycle, now, lastAlerts, inFlight, failed, recorded,
                   admitted, nEvents, nTicks>>

\* setInterval(..., 600000)
AlertCleanup ==
    /\ Running
    /\ lastAlerts' = cleanLastAlerts(lastAlerts, now)
    /\ NoOutput
    /\ UNCHANGED <<environment, lifecycle, now, eventCounts, inFlight, failed,
                   recorded, admitted, nEvents, nTicks>>

\* a mutated heartbeat that resets the frequency tracker it reports on
HeartbeatResets ==
    /\ Running
    /\ eventCounts' = EmptyMap
    /\ NoOutput
    /\ UNCHANGED <<environment, lifecycle, now, lastAlerts, inFlight, failed, recorded,
                   admitted, nEvents, nTicks>>

\* setInterval(..., 3600000): logs eventCounts.size
Heartbeat ==
    /\ Running
    /\ NoOutput
    /\ UNCHANGED <<environment, lifecycle, now, eventCounts, lastAlerts, inFlight,
                   failed, recorded, admitted, nEvents, nTicks>>

\* tail "error" -> the error is logged
TailError ==
    /\ Running
    /\ NoOutput
    /\ UNCHANGED <<environment, lifecycle, now, eventCounts, lastAlerts, inFlight, failed,
                   recorded, admitted, nEvents, nTicks>>

\* what the runtime does with a promise rejected with no handler: it raises
\* an uncaught exception that ends the process with code 1, or only warns
UnhandledRejections == {"throw", "warn"}

\* the delivery of the message sendTestMessage sends at startup
TestDelivery(t) == [key |-> <<"test">>, at |-> t]

\* The start of the service: new VoltrAlertService() runs initLogWatcher,
\* which exits with code 1 when the log file does not exist, and then
\* initPeriodicTasks; sendTestMessage() is called and not awaited, and the
\* signal handlers are installed.  sendTestMessage reads botToken.slice(-8)
\* before its try block: without a token it rejects, nothing handles the
\* rejection, and the runtime treats it as `unhandled` says.
Start(unhandled) ==
    /\ lifecycle = <<>>
    /\ lifecycle' =
          IF ~environment.logFile THEN <<"exit(1)">>
          ELSE IF environment.botToken = <<>> /\ unhandled = "throw"
          THEN Started \o <<"exit(1)">>
          ELSE Started
    /\ inFlight' =
          IF environment.logFile /\ environment.botToken # <<>>
          THEN inFlight \cup {TestDelivery(now)}
          ELSE inFlight
    /\ NoOutput
    /\ UNCHANGED <<environment, now, eventCounts, lastAlerts, failed, recorded, admitted,
                   nEvents, nTicks>>

Signals == {"SIGINT", "SIGTERM"}

\* a mutated shutdown that exits without releasing the tail
ShutdownKeepsWatching(signal) ==
    /\ Running
    /\ lifecycle' = lifecycle \o <<signal, "exit(0)">>
    /\ NoOutput
    /\ UNCHANGED <<environment, now, eventCounts, lastAlerts, inFlight, failed, recorded,
                   admitted, nEvents, nTicks>>

\* process.on(signal) -> shutdown(): this.tail is set whenever the handlers
\* are installed, so it is unwatched, and the process exits with code 0
Shutdown(signal) ==
    /\ Running
    /\ lifecycle' = lifecycle \o <<signal, "unwatch", "exit(0)">>
    /\ NoOutput
    /\ UNCHANGED <<environment, now, eventCounts, lastAlerts, inFlight, failed, recorded,
                   admitted, nEvents, nTicks>>

NextOver(lines, deltas, maxEvents, maxTicks) ==
    \/ \E line \in lines : nEvents < maxEvents /\ ProcessLogLine(line)
    \/ \E d \in deltas : nTicks < maxTicks /\ Tick(d)
    \/ FrequencyCleanup
    \/ AlertCleanup
    \/ Heartbeat

(* Classification: every kind and payload, few events. *)
AllLines == {LineOf(event) : event \in AllEvents}
MaxEvents == 1
MaxTicks == 1
Deltas == {30000}

Spec == Init /\ [][NextOver(AllLines, Deltas, MaxEvents, MaxTicks)]_vars

(* Rate limiting: vault deposits, small and large, around the cooldowns and *)
(* the retention horizon.                                                   *)
LimiterEvents ==
    {MakeEvent("depositVaultEvent", "vaultA", <<100>>, <<1000>>, <<1100>>),
     MakeEvent("depositVaultEvent", "vaultA", <<150>>, <<1000>>, <<1150>>),
     MakeEvent("depositVaultEvent", "vaultB", <<150>>, <<1000>>, <<1150>>)}
LimiterDeltas == {29999, 30000, 299999, 300000, 86400001}
LimiterLines == {LineOf(event) : event \in LimiterEvents}
MaxLimiterEvents == 3
MaxLimiterTicks == 2

SpecLimiter ==
    Init /\ [][NextOver(LimiterLines, LimiterDeltas, MaxLimiterEvents, MaxLimiterTicks)]_vars

(* Bursts: many events of one key around the window. *)
BurstEvents ==
    {MakeEvent("withdrawStrategyEvent", "vaultA", <<150>>, <<1000>>, <<1200>>),
     MakeEvent(UnhandledName, "vaultA", <<>>, <<1000>>, <<1000>>)}
BurstDeltas == {59000, 61000}
BurstLines == {LineOf(event) : event \in BurstEvents}
MaxBurstEvents == 11
MaxBurstTicks == 1

SpecBurst ==
    Init /\ [][NextOver(BurstLines, BurstDeltas, MaxBurstEvents, MaxBurstTicks)]_vars

(* Decoding: lines of every shape. *)
LineEvents ==
    {MakeEvent("depositVaultEvent", "vaultA", <<150>>, <<1000>>, <<1150>>),
     MakeEvent("withdrawVaultEvent", "vaultA", <<150>>, <<1000>>, <<850>>),
     MakeEvent("depositVaultEvent", "vaultB", <<150>>, <<1000>>, <<1150>>),
     WithoutVault(MakeEvent("depositVaultEvent", "vaultA", <<150>>, <<1000>>, <<1150>>)),
     WithEmptyVault(MakeEvent("depositVaultEvent", "vaultA", <<150>>, <<1000>>, <<1150>>))}

\* lines that are no event of the listener: plain text, null, an entry with no
\* message, with an empty one, with one that is not JSON or is null, a payload
\* of another service, of none, a payload with no eventData, and a payload
\* that is not wrapped in a log entry
OtherLines ==
    LET event == MakeEvent("depositVaultEvent", "vaultA", <<150>>, <<1000>>, <<1150>>)
    IN  {NotJson,
         Json(Null),
         Json([type |-> <<"out">>]),
         Json(LogEntry(EmptyString)),
         Json(LogEntry(NotJson)),
         Json(LogEntry(Json(Null))),
         Json(LogEntry(Json(Payload(<<"voltr-other-service">>, event)))),
         Json(LogEntry(Json(Payload(<<>>, event)))),
         Json(LogEntry(Json([service |-> <<ExpectedService>>,
                             eventName |-> <<event.eventName>>]))),
         Json(Payload(<<ExpectedService>>, event))}

Lines == {LineOf(event) : event \in LineEvents} \cup OtherLines
LineDeltas == {1000}
MaxLineEvents == 2
MaxLineTicks == 1

SpecLines == Init /\ [][NextOver(Lines, LineDeltas, MaxLineEvents, MaxLineTicks)]_vars

(* Deliveries: the requests of earlier events settle, well or badly, in any *)
(* order between the lines.                                                 *)
DeliveryEvents ==
    {MakeEvent("depositVaultEvent", "vaultA", <<150>>, <<1000>>, <<1150>>),
     MakeEvent("withdrawVaultEvent", "vaultA", <<150>>, <<1000>>, <<850>>),
     MakeEvent("depositVaultEvent", "vaultB", <<150>>, <<1000>>, <<1150>>)}
DeliveryLines == {LineOf(event) : event \in DeliveryEvents} \cup {NotJson}
DeliveryDeltas == {1000}
MaxDeliveryEvents == 2
MaxDeliveryTicks == 1

NextDelivery ==
    \/ NextOver(DeliveryLines, DeliveryDeltas, MaxDeliveryEvents, MaxDeliveryTicks)
    \/ \E delivery \in inFlight : \E outcome \in Outcomes : Settle(delivery, outcome)

SpecDelivery == Init /\ [][NextDelivery]_vars

(* Strategies: moves of 10 percent of the vault with a PnL of 2 percent of  *)
(* the amount, of every strategy kind and on several strategies, around    *)
(* the critical cooldown.                                                  *)
PnlEvents ==
    LET move(name, vault) == MakeEvent(name, vault, <<100>>, <<1000>>, <<1002>>)
    IN  {OnStrategy(move("depositStrategyEvent", "vaultA"), "strategy1"),
         OnStrategy(move("depositStrategyEvent", "vaultA"), "strategy2"),
         OnStrategy(move("withdrawStrategyEvent", "vaultA"), "strategy2"),
         OnStrategy(move("directWithdrawStrategyEvent", "vaultA"), "strategy3"),
         OnStrategy(move("depositStrategyEvent", "vaultB"), "strategy1")}
PnlLines == {LineOf(event) : event \in PnlEvents}
PnlDeltas == {299999, 300000}
MaxPnlEvents == 3
MaxPnlTicks == 1

SpecPnl == Init /\ [][NextOver(PnlLines, PnlDeltas, MaxPnlEvents, MaxPnlTicks)]_vars

(* Two bursts: ten deposits into a vault followed by withdrawals from it,  *)
(* so that two event kinds of one vault become frequent in turn.           *)
FirstBurst == highFrequencyEvents
TwoBurstLines ==
    IF nEvents < FirstBurst
    THEN {LineOf(MakeEvent("depositVaultEvent", "vaultA", <<10>>, <<1000>>, <<1010>>))}
    ELSE {LineOf(MakeEvent("withdrawVaultEvent", "vaultA", <<10>>, <<1000>>, <<990>>))}
TwoBurstDeltas == {1000, 300000}
MaxTwoBurstEvents == 20
MaxTwoBurstTicks == 1

SpecTwoBursts ==
    Init /\ [][NextOver(TwoBurstLines, TwoBurstDeltas, MaxTwoBurstEvents, MaxTwoBurstTicks)]_vars

(* Idle keys: a few deposits, the clock passing the window and the 24      *)
(* hours, and the two cleanup timers firing fairly: a callback of          *)
(* setInterval that is due is eventually run.                              *)
IdleEvents ==
    {MakeEvent("depositVaultEvent", vault, <<150>>, <<1000>>, <<1150>>) : vault \in Vaults}
IdleLines == {LineOf(event) : event \in IdleEvents}
IdleDeltas == {60000, 86400001}
MaxIdleEvents == 2
MaxIdleTicks == 2

SpecIdle ==
    /\ Init
    /\ [][NextOver(IdleLines, IdleDeltas, MaxIdleEvents, MaxIdleTicks)]_vars
    /\ WF_vars(FrequencyCleanup)
    /\ WF_vars(AlertCleanup)

(* Lifecycle: the process from before its start, in every environment, to  *)
(* its end, with lines that fail to parse, degenerate payloads, read       *)
(* errors and deliveries that fail.                                        *)
Environments == [logFile : BOOLEAN, botToken : {<<>>, <<"token">>}]

InitLifecycle ==
    /\ Fresh
    /\ environment \in Environments
    /\ lifecycle = <<>>

LifecycleEvents ==
    {MakeEvent("depositVaultEvent", "vaultA", <<150>>, <<1000>>, <<1150>>)}
        \cup EmptyVaultEvents
LifecycleLines == {LineOf(event) : event \in LifecycleEvents} \cup {NotJson}
LifecycleDeltas == {1000}
MaxLifecycleEvents == 2
MaxLifecycleTicks == 1

NextLifecycle ==
    \/ \E unhandled \in UnhandledRejections : Start(unhandled)
    \/ NextOver(LifecycleLines, LifecycleDeltas, MaxLifecycleEvents, MaxLifecycleTicks)
    \/ \E delivery \in inFlight : \E outcome \in Outcomes : Settle(delivery, outcome)
    \/ TailError
    \/ \E signal \in Signals : Shutdown(signal)

SpecLifecycle == InitLifecycle /\ [][NextLifecycle]_vars

-----------------------------------------------------------------------------
(* Vocabulary of the properties *)

InfoTypes == {"vault_deposit", "vault_withdrawal", "strategy_deposit",
              "strategy_withdrawal", "direct_strategy_withdrawal"}
LargeTypes == {"large_vault_deposit", "large_vault_withdrawal",
               "large_strategy_deposit", "large_strategy_withdrawal"}

Handled == lastEvent # <<>>
TheEvent == lastEvent[1]
TheKey == FrequencyKey(TheEvent)

\* the positions of the last event's candidates whose alert type is in types
CandidatesOf(types) == {i \in DOMAIN candidates : candidates[i].alert.type \in types}

\* the cooldown of a class key's severity
CooldownOf(key) == IF key[1] = "info" THEN 30000 ELSE 300000

\* every time at which an event of the key was handled, from the history
OccurrencesIn(key, from) ==
    IF Has(recorded, key)
    THEN {i \in DOMAIN recorded[key] : recorded[key][i] > from}
    ELSE {}

\* the exact sliding-window count of the key at the current time
ExactCount(key) == Cardinality(OccurrencesIn(key, now - 60000))

Last(seq) == seq[Len(seq)]

-----------------------------------------------------------------------------
(* C1: any two notifications dispatched for the same class key were        *)
(* admitted at least the cooldown of the key's class apart: 30,000 ms for  *)
(* info keys, 300,000 ms for critical keys.                                *)
C1_AdmissionsCooldownApart ==
    \A key \in DOMAIN admitted :
        \A i, j \in DOMAIN admitted[key] :
            i < j => admitted[key][j] - admitted[key][i] >= CooldownOf(key)

\* a critical key and an info key each admitted a second time
C1_Witness ==
    /\ \E key \in DOMAIN admitted : key[1] = "critical" /\ Len(admitted[key]) >= 2
    /\ \E key \in DOMAIN admitted : key[1] = "info" /\ Len(admitted[key]) >= 2

(* C2, as claimed: a candidate is admitted (and now is stored) iff no      *)
(* timestamp is stored for its key or now minus the stored timestamp       *)
(* strictly exceeds the cooldown; the attempt made exactly the cooldown    *)
(* after the last admitted one is rejected.                                *)
C2_AdmitsOnlyAfterCooldown ==
    \A i \in DOMAIN decisions :
        LET dec == decisions[i]
        IN  (~dec.limited) <=> (~dec.had \/ dec.at - dec.last > dec.delay)

(* C2, amended: a candidate is admitted (and now is stored) iff no         *)
(* timestamp is stored for its key or now minus the stored timestamp is at *)
(* least the cooldown; the attempt made exactly the cooldown after the     *)
(* last admitted one is admitted.  A rejected attempt stores nothing.      *)
C2_AdmitsFromCooldown ==
    \A i \in DOMAIN decisions :
        LET dec == decisions[i]
        IN  /\ (~dec.limited) <=> (~dec.had \/ dec.at - dec.last >= dec.delay)
            /\ ~dec.limited => Has(lastAlerts, dec.key) /\ lastAlerts[dec.key] = now
            /\ dec.limited => Has(lastAlerts, dec.key) /\ lastAlerts[dec.key] = dec.last
            /\ dec.at = now
            /\ dec.delay = CooldownOf(dec.key)

\* an attempt exactly the cooldown after the stored timestamp, admitted
C2_Witness ==
    \E i \in DOMAIN decisions :
        /\ decisions[i].had
        /\ decisions[i].at - decisions[i].last = decisions[i].delay
        /\ ~decisions[i].limited

(* C3: for a check d ms after the stored timestamp with cooldown c: if     *)
(* d < c it is rejected and the stored timestamp stays, so a rejection     *)
(* happens only within c of the last admitted emission; if d > c it is     *)
(* admitted and the stored timestamp becomes the time of the check.        *)
C3_SuppressedAttemptLeavesTimestamp ==
    \A i \in DOMAIN decisions :
        LET dec == decisions[i]
            d == dec.at - dec.last
        IN  /\ dec.had /\ d < dec.delay =>
                /\ dec.limited
                /\ lastAlerts[dec.key] = dec.last
            /\ dec.had /\ d > dec.delay =>
                /\ ~dec.limited
                /\ lastAlerts[dec.key] = dec.at
            /\ dec.limited =>
                /\ Has(admitted, dec.key)
                /\ Last(admitted[dec.key]) = dec.last
                /\ dec.at - Last(admitted[dec.key]) < dec.delay

\* one event whose info alert is admitted after its cooldown while its critical
\* alert is rejected within its own, after an earlier rejected attempt
C3_Witness ==
    /\ \E i \in DOMAIN decisions :
          /\ decisions[i].had /\ ~decisions[i].limited
          /\ decisions[i].at - decisions[i].last > decisions[i].delay
    /\ \E i \in DOMAIN decisions :
          /\ decisions[i].limited
          /\ decisions[i].at - decisions[i].last > 0
          /\ nEvents >= 3

(* C4: on every event, the count the tracker uses for the high-frequency   *)
(* check and reports as the rate is exactly the number of recorded         *)
(* occurrences of the event's key with timestamp > now - windowSize, the   *)
(* one just recorded included.                                             *)
C4_RateIsExactWindowCount ==
    Handled => rate = ExactCount(TheKey)

(* C5: a HighFrequency candidate is emitted for a key only if at least the *)
(* threshold of occurrences of that key lie within the trailing window.    *)
C5_HighFrequencyOnlyWithinWindow ==
    Handled /\ CandidatesOf({"high_frequency"}) # {} => ExactCount(TheKey) >= 10

(* C6: when the occurrences of a key are a burst, all less than the window *)
(* apart, the event that is the threshold-th of them is counted as the     *)
(* threshold and emits a HighFrequency candidate, and an earlier event of  *)
(* the burst emits none.                                                   *)
C6_BurstReachesThresholdOnTenth ==
    Handled /\ Last(recorded[TheKey]) - recorded[TheKey][1] < 60000 =>
        /\ Len(recorded[TheKey]) = 10 =>
              /\ rate = 10
              /\ CandidatesOf({"high_frequency"}) # {}
        /\ Len(recorded[TheKey]) < 10 => CandidatesOf({"high_frequency"}) = {}

\* the tenth event of a burst that began 59,000 ms earlier
C6_Witness ==
    /\ Handled
    /\ Len(recorded[TheKey]) = 10
    /\ Last(recorded[TheKey]) - recorded[TheKey][1] = 59000
    /\ CandidatesOf({"high_frequency"}) # {}

(* C7, as claimed: an event of a kind that is none of the five handled     *)
(* ones produces no candidate at all, whatever the tracker holds.          *)
C7_UnhandledKindNoCandidate ==
    Handled /\ TheEvent.eventName \notin EventNames => candidates = <<>>

(* C7, amended: an event of a kind that is none of the five handled ones   *)
(* produces no Info, LargeTransaction or StrategyPnL candidate; it is      *)
(* tracked like any event, and its only possible candidate is one          *)
(* HighFrequency candidate, emitted iff the tracker's count is at least    *)
(* the threshold.                                                          *)
C7_UnhandledKindOnlyHighFrequency ==
    Handled /\ TheEvent.eventName \notin EventNames =>
        /\ CandidatesOf(InfoTypes \cup LargeTypes \cup {"strategy_significant_pnl"}) = {}
        /\ \A i \in DOMAIN candidates : candidates[i].severity = "critical"
        /\ Len(candidates) = (IF rate >= 10 THEN 1 ELSE 0)
        /\ CandidatesOf({"high_frequency"}) = DOMAIN candidates

\* an unhandled event, tracked, whose one candidate is the HighFrequency one
C7_Witness ==
    /\ Handled
    /\ TheEvent.eventName \notin EventNames
    /\ Has(eventCounts, TheKey)
    /\ Len(candidates) = 1
    /\ candidates[1].alert.type = "high_frequency"

(* C8: every event, whatever its kind, is recorded under its (eventName,   *)
(* vault) key before the dispatch on its kind, and a HighFrequency         *)
(* candidate is emitted for it, ahead of the handler's candidates,         *)
(* whenever the tracker's count for the key is at least the threshold.     *)
C8_TrackedBeforeDispatch ==
    Handled =>
        /\ Has(eventCounts, TheKey)
        /\ Len(eventCounts[TheKey]) >= 1
        /\ Last(eventCounts[TheKey]) = now
        /\ rate >= Len(eventCounts[TheKey])
        /\ rate >= 10 =>
              /\ Len(candidates) >= 1
              /\ candidates[1].alert.type = "high_frequency"
              /\ candidates[1].alert.eventType = TheEvent.eventName
              /\ candidates[1].alert.vault = TheEvent.eventData.vault
              /\ candidates[1].alert.rate = rate

\* a handled kind whose HighFrequency candidate precedes its Info candidate,
\* with exactly the threshold of occurrences stored
C8_Witness ==
    /\ Handled
    /\ TheEvent.eventName \in EventNames
    /\ Len(eventCounts[TheKey]) = 10
    /\ Len(candidates) >= 2
    /\ candidates[1].alert.type = "high_frequency"
    /\ candidates[2].severity = "info"

\* the Info type each handler emits
InfoTypeOf(name) ==
    CASE name = "depositVaultEvent" -> "vault_deposit"
      [] name = "withdrawVaultEvent" -> "vault_withdrawal"
      [] name = "depositStrategyEvent" -> "strategy_deposit"
      [] name = "withdrawStrategyEvent" -> "strategy_withdrawal"
      [] name = "directWithdrawStrategyEvent" -> "direct_strategy_withdrawal"

(* C9: each of the five handlers produces exactly one Info candidate per   *)
(* event, of its own type and for the event's vault, whatever the payload  *)
(* and whether or not a critical condition holds.                          *)
C9_ExactlyOneInfo ==
    Handled /\ TheEvent.eventName \in EventNames =>
        /\ Cardinality({i \in DOMAIN candidates : candidates[i].severity = "info"}) = 1
        /\ Cardinality(CandidatesOf(InfoTypes)) = 1
        /\ \A i \in CandidatesOf(InfoTypes) :
              /\ candidates[i].severity = "info"
              /\ candidates[i].alert.type = InfoTypeOf(TheEvent.eventName)
              /\ candidates[i].alert.vault = TheEvent.eventData.vault

\* a vault deposit of 15 percent: one Info candidate beside a critical one
C9_Witness ==
    /\ Handled
    /\ TheEvent.eventName = "depositVaultEvent"
    /\ TheEvent.eventData.vaultAssetTotalValueBefore = <<1000>>
    /\ TheEvent.eventData.userAmountAssetDeposited = <<150>>
    /\ CandidatesOf(LargeTypes) # {}
    /\ Cardinality(CandidatesOf(InfoTypes)) = 1

\* amount / totalValueBefore * 100 > 10 on the payload, in integers: the total
\* value is 1 when absent, and x / 0 is Infinity for x > 0 and NaN for x = 0
ExceedsTenPercent(event) ==
    LET amount == Coalesce(AmountOf(event), 0)
        before == Coalesce(event.eventData.vaultAssetTotalValueBefore, 1)
    IN  IF before = 0 THEN amount > 0 ELSE amount * 100 > 10 * before

LargeTypeOf(name) ==
    IF name = "depositVaultEvent" THEN "large_vault_deposit" ELSE "large_vault_withdrawal"

(* C10: a vault deposit or vault withdrawal emits a LargeTransaction       *)
(* candidate iff amount / totalValueBefore * 100 is strictly greater than  *)
(* 10; a transaction of exactly 10 percent emits none.                     *)
C10_LargeVaultMoveIffAboveThreshold ==
    Handled /\ TheEvent.eventName \in {"depositVaultEvent", "withdrawVaultEvent"} =>
        /\ CandidatesOf(LargeTypes) # {} <=> ExceedsTenPercent(TheEvent)
        /\ Cardinality(CandidatesOf(LargeTypes)) <= 1
        /\ \A i \in CandidatesOf(LargeTypes) :
              /\ candidates[i].severity = "critical"
              /\ candidates[i].alert.type = LargeTypeOf(TheEvent.eventName)
              /\ candidates[i].alert.vault = TheEvent.eventData.vault
        /\ CandidatesOf({"strategy_significant_pnl"}) = {}

\* a withdrawal of exactly 10 percent of the vault, with no LargeTransaction
C10_Witness ==
    /\ Handled
    /\ TheEvent.eventName = "withdrawVaultEvent"
    /\ TheEvent.eventData.userAmountAssetWithdrawn = <<100>>
    /\ TheEvent.eventData.vaultAssetTotalValueBefore = <<1000>>
    /\ CandidatesOf(LargeTypes) = {}

\* |pnl / amount| > 0.01 on the payload, in integers: the amount is 0 and the
\* total value after is 0 when absent, the total value before is 1 when absent,
\* and pnl / 0 is +-Infinity for pnl # 0 and NaN for pnl = 0
ExceedsPnlThreshold(event) ==
    LET amount == Coalesce(AmountOf(event), 0)
        before == Coalesce(event.eventData.vaultAssetTotalValueBefore, 1)
        after  == Coalesce(event.eventData.vaultAssetTotalValueAfter, 0)
        pnl    == after - before
    IN  IF amount = 0 THEN pnl # 0 ELSE AbsInt(pnl) * 100 > amount

StrategyLargeTypeOf(name) ==
    IF name = "depositStrategyEvent"
    THEN "large_strategy_deposit" ELSE "large_strategy_withdrawal"

\* the alert types of the last event's candidates, in the order of emission
CandidateTypes == [i \in DOMAIN candidates |-> candidates[i].alert.type]

(* C11: a strategy deposit or strategy withdrawal emits a StrategyPnL      *)
(* candidate iff |pnl| / amount > 0.01 and a LargeTransaction candidate    *)
(* iff amount / totalValueBefore * 100 > 10, each condition on its own;    *)
(* when both hold (amount 150, before 1000, after 1200) the handler emits  *)
(* exactly three candidates: Info, StrategyPnL and LargeTransaction.       *)
C11_StrategyConditionsIndependent ==
    Handled /\ TheEvent.eventName \in {"depositStrategyEvent", "withdrawStrategyEvent"} =>
        LET pnlType   == "strategy_significant_pnl"
            largeType == StrategyLargeTypeOf(TheEvent.eventName)
        IN  /\ CandidateTypes =
                    <<InfoTypeOf(TheEvent.eventName)>>
                    \o (IF ExceedsPnlThreshold(TheEvent) THEN <<pnlType>> ELSE <<>>)
                    \o (IF ExceedsTenPercent(TheEvent) THEN <<largeType>> ELSE <<>>)
            /\ \A i \in DOMAIN candidates :
                  /\ candidates[i].severity = (IF i = 1 THEN "info" ELSE "critical")
                  /\ candidates[i].alert.vault = TheEvent.eventData.vault
            /\ /\ AmountOf(TheEvent) = <<150>>
                /\ TheEvent.eventData.vaultAssetTotalValueBefore = <<1000>>
                /\ TheEvent.eventData.vaultAssetTotalValueAfter = <<1200>>
                => Len(candidates) = 3

\* the strategy deposit of 150 into a vault of 1000 that ends at 1200, with
\* its three candidates
C11_Witness ==
    /\ Handled
    /\ TheEvent.eventName = "depositStrategyEvent"
    /\ TheEvent.eventData.vaultAmountAssetDeposited = <<150>>
    /\ TheEvent.eventData.vaultAssetTotalValueBefore = <<1000>>
    /\ TheEvent.eventData.vaultAssetTotalValueAfter = <<1200>>
    /\ CandidateTypes =
           <<"strategy_deposit", "strategy_significant_pnl", "large_strategy_deposit">>

(* C12: a direct strategy withdrawal never emits a LargeTransaction        *)
(* candidate, whatever its amount: its handler emits one Info candidate    *)
(* and, iff |pnl| / amount > 0.01, one StrategyPnL candidate after it.     *)
C12_DirectWithdrawNeverLarge ==
    Handled /\ TheEvent.eventName = "directWithdrawStrategyEvent" =>
        /\ CandidateTypes =
                <<"direct_strategy_withdrawal">>
                \o (IF ExceedsPnlThreshold(TheEvent)
                    THEN <<"strategy_significant_pnl">> ELSE <<>>)
        /\ CandidatesOf(LargeTypes) = {}
        /\ \A i \in DOMAIN candidates :
              /\ candidates[i].severity = (IF i = 1 THEN "info" ELSE "critical")
              /\ candidates[i].alert.vault = TheEvent.eventData.vault

\* a direct withdrawal of 15 percent of the vault with no PnL: Info alone
C12_Witness ==
    /\ Handled
    /\ TheEvent.eventName = "directWithdrawStrategyEvent"
    /\ TheEvent.eventData.userAmountAssetWithdrawn = <<150>>
    /\ TheEvent.eventData.vaultAssetTotalValueBefore = <<1000>>
    /\ TheEvent.eventData.vaultAssetTotalValueAfter = <<1000>>
    /\ CandidateTypes = <<"direct_strategy_withdrawal">>

\* the amount and the percentages of the vault's total value an alert carries
SharesOfVault(alert) ==
    {alert[f] : f \in {"amount", "percentageChange", "percentage", "pnlPercent"}
                       \cap DOMAIN alert}

(* C13: for every handled event, including those whose totalValueBefore is *)
(* absent or zero, the denominator of percentageChange, transactionPercent *)
(* and pnlPercent falls back to 1, so every amount and percentage carried  *)
(* by an emitted candidate is a finite number.                             *)
C13_PercentagesFinite ==
    Handled /\ TheEvent.eventName \in EventNames =>
        \A i \in DOMAIN candidates :
            \A x \in SharesOfVault(candidates[i].alert) : IsFinite(x)

\* totalValueAfter - totalValueBefore on the payload, with the fallbacks
PnlOf(event) ==
    Coalesce(event.eventData.vaultAssetTotalValueAfter, 0)
    - Coalesce(event.eventData.vaultAssetTotalValueBefore, 1)

ZeroAmountStrategyEvent ==
    /\ Handled
    /\ TheEvent.eventName \in StrategyNames
    /\ Coalesce(AmountOf(TheEvent), 0) = 0

(* C14, as claimed: a strategy deposit, strategy withdrawal or direct      *)
(* strategy withdrawal whose amount is zero or absent always emits a       *)
(* StrategyPnL candidate, for every value of pnl including pnl = 0.        *)
C14_ZeroAmountAlwaysTrips ==
    ZeroAmountStrategyEvent => CandidatesOf({"strategy_significant_pnl"}) # {}

(* C14, amended: a strategy deposit, strategy withdrawal or direct         *)
(* strategy withdrawal whose amount is zero or absent is handled to the    *)
(* end, Info candidate included, and emits a StrategyPnL candidate (with   *)
(* an infinite ratio) iff pnl is not 0; with pnl = 0 the ratio is 0/0, no  *)
(* threshold is exceeded and no StrategyPnL candidate is emitted.          *)
C14_ZeroAmountTripsUnlessPnlZero ==
    ZeroAmountStrategyEvent =>
        /\ CandidatesOf({"strategy_significant_pnl"}) # {} <=> PnlOf(TheEvent) # 0
        /\ Cardinality(CandidatesOf({"strategy_significant_pnl"})) <= 1
        /\ \A i \in CandidatesOf({"strategy_significant_pnl"}) :
              /\ candidates[i].alert.pnlToAmountRatio = Infinity
              /\ candidates[i].alert.pnl = Fin(PnlOf(TheEvent))
        /\ Len(candidates) >= 1
        /\ candidates[1].alert.type = InfoTypeOf(TheEvent.eventName)

\* a strategy deposit of amount 0 into a vault that stays at 1000: Info alone
C14_Witness ==
    /\ ZeroAmountStrategyEvent
    /\ TheEvent.eventName = "depositStrategyEvent"
    /\ TheEvent.eventData.vaultAmountAssetDeposited = <<0>>
    /\ TheEvent.eventData.vaultAssetTotalValueBefore = <<1000>>
    /\ TheEvent.eventData.vaultAssetTotalValueAfter = <<1000>>
    /\ CandidateTypes = <<"strategy_deposit">>

(* C15: for every vault-deposit event with amount = 0 and totalValueBefore *)
(* equal to totalValueAfter, the Info candidate's percentageChange is 0    *)
(* and no LargeTransaction candidate is emitted.                           *)
C15_IdleDepositChangesNothing ==
    /\ Handled
    /\ TheEvent.eventName = "depositVaultEvent"
    /\ TheEvent.eventData.userAmountAssetDeposited = <<0>>
    /\ TheEvent.eventData.vaultAssetTotalValueBefore # <<>>
    /\ TheEvent.eventData.vaultAssetTotalValueAfter =
           TheEvent.eventData.vaultAssetTotalValueBefore
    => /\ CandidateTypes = <<"vault_deposit">>
       /\ candidates[1].alert.percentageChange = Fin(0)

\* the line is the JSON text of an object with a message that is the JSON text
\* of an object tagged with the listener's service name and holding eventData
WellFormed(line) ==
    /\ line.kind = "json"
    /\ line.value # Null
    /\ "message" \in DOMAIN line.value
    /\ line.value.message[1].kind = "json"
    /\ line.value.message[1].value # Null
    /\ LET payload == line.value.message[1].value
       IN  /\ "service" \in DOMAIN payload
           /\ payload.service = <<"voltr-vault-listener">>
           /\ "eventData" \in DOMAIN payload
           /\ payload.eventData # <<>>

(* C16: a log line reaches the classifier iff its outer envelope parses,   *)
(* it has a message, the inner payload parses, the origin tag equals the   *)
(* expected service and an event payload is present; every other line is   *)
(* dropped: no dispatch, no candidate, no delivery, and the frequency      *)
(* tracker and the rate limiter stay as they were.                         *)
C16_OnlyListenerLinesReachClassifier ==
    [][lastLine' # <<>> =>
          LET line == lastLine'[1]
          IN  /\ lastEvent' # <<>> <=> WellFormed(line)
              /\ WellFormed(line) =>
                    /\ lastEvent'[1].eventData = line.value.message[1].value.eventData[1]
                    /\ <<lastEvent'[1].eventName>> = line.value.message[1].value.eventName
                    /\ Has(eventCounts', FrequencyKey(lastEvent'[1]))
              /\ ~WellFormed(line) =>
                    /\ candidates' = <<>>
                    /\ decisions' = <<>>
                    /\ sent' = <<>>
                    /\ UNCHANGED <<eventCounts, lastAlerts, inFlight, recorded, admitted>>
      ]_vars

\* a payload of another service, dropped after an event had been tracked and
\* its alerts admitted
C16_Witness ==
    /\ lastLine # <<>>
    /\ lastEvent = <<>>
    /\ lastLine[1].kind = "json"
    /\ "message" \in DOMAIN lastLine[1].value
    /\ lastLine[1].value.message[1].kind = "json"
    /\ lastLine[1].value.message[1].value # Null
    /\ lastLine[1].value.message[1].value.service = <<"voltr-other-service">>
    /\ eventCounts # EmptyMap
    /\ lastAlerts # EmptyMap
    /\ candidates = <<>>

(* C17: no alert candidate is ever produced with an empty or missing vault *)
(* field: a well-formed event whose payload lacks the vault identifier is  *)
(* rejected by the decoder and creates no tracker key, no rate-limit key   *)
(* and no candidate.                                                       *)
C17_NoCandidateWithoutVault ==
    /\ \A i \in DOMAIN candidates : candidates[i].alert.vault \notin {<<>>, <<"">>}
    /\ lastLine # <<>> /\ WellFormed(lastLine[1]) =>
          LET vault == lastLine[1].value.message[1].value.eventData[1].vault
          IN  vault \in {<<>>, <<"">>} =>
                  /\ lastEvent = <<>>
                  /\ candidates = <<>>
                  /\ \A key \in DOMAIN eventCounts : key[2] # Template(vault)
                  /\ \A key \in DOMAIN lastAlerts : key[3] # Template(vault)

\* the class key of a candidate: its severity, alert type and vault
ClassKey(candidate) ==
    <<candidate.severity, candidate.alert.type, Template(candidate.alert.vault)>>

(* C18: rate-limit keys are independent.  In the step of an event, the     *)
(* decision on a candidate depends on the stored timestamp of its own      *)
(* (severity, alertType, vault) key alone, a rejection follows an          *)
(* admission of that very key within the cooldown, the own key's timestamp *)
(* becomes now on admission and stays on rejection, and the timestamp of   *)
(* every key that differs in severity, alert type or vault stays as it     *)
(* was.                                                                    *)
C18_ClassKeysIndependent ==
    [][lastEvent' # <<>> =>
          LET own == {ClassKey(candidates'[i]) : i \in DOMAIN candidates'}
          IN  /\ DOMAIN decisions' = DOMAIN candidates'
              /\ \A i \in DOMAIN candidates' :
                    LET key == ClassKey(candidates'[i])
                        dec == decisions'[i]
                    IN  /\ dec.key = key
                        /\ dec.limited <=>
                               Has(lastAlerts, key) /\ now - lastAlerts[key] < dec.delay
                        /\ dec.limited =>
                               /\ Has(admitted, key)
                               /\ now - Last(admitted[key]) < dec.delay
                               /\ lastAlerts'[key] = lastAlerts[key]
                        /\ ~dec.limited => lastAlerts'[key] = now
              /\ \A key \in (DOMAIN lastAlerts \cup DOMAIN lastAlerts') \ own :
                    /\ Has(lastAlerts, key) /\ Has(lastAlerts', key)
                    /\ lastAlerts'[key] = lastAlerts[key]
      ]_vars

\* a withdrawal from vaultA whose Info alert is admitted 1,000 ms after the
\* Info alert of a deposit into vaultA, which is still cooling down
C18_Witness ==
    /\ Handled
    /\ TheEvent.eventName = "withdrawVaultEvent"
    /\ \E i \in DOMAIN decisions :
          /\ decisions[i].key = <<"info", "vault_withdrawal", "vaultA">>
          /\ ~decisions[i].limited
    /\ Has(lastAlerts, <<"info", "vault_deposit", "vaultA">>)
    /\ now - lastAlerts[<<"info", "vault_deposit", "vaultA">>] = 1000

\* the positions of the last event's candidates that were admitted
Admitted == {i \in DOMAIN decisions : ~decisions[i].limited}

(* C19: every Info candidate is rate-limited with the informational        *)
(* cooldown (30,000 ms) and every other candidate (LargeTransaction,       *)
(* StrategyPnL, HighFrequency) with the critical cooldown (300,000 ms),    *)
(* and the deliveries started are exactly those of the candidates the      *)
(* limiter of their class admitted.                                        *)
C19_EveryCandidatePassesItsLimiter ==
    /\ DOMAIN decisions = DOMAIN candidates
    /\ \A i \in DOMAIN candidates :
          LET type == candidates[i].alert.type
              key  == ClassKey(candidates[i])
              dec  == decisions[i]
          IN  /\ candidates[i].severity = (IF type \in InfoTypes THEN "info" ELSE "critical")
              /\ dec.key = key
              /\ dec.delay = (IF type \in InfoTypes THEN 30000 ELSE 300000)
              /\ dec.limited <=> dec.had /\ now - dec.last < dec.delay
              /\ ~dec.limited =>
                     /\ \E j \in DOMAIN sent : sent[j].key = key
                     /\ [key |-> key, at |-> now] \in inFlight
              /\ dec.limited => \A j \in DOMAIN sent : sent[j].key # key
    /\ Len(sent) = Cardinality(Admitted)
    /\ \A j \in DOMAIN sent : \E i \in Admitted : decisions[i].key = sent[j].key
    /\ \A delivery \in inFlight :
          /\ Has(admitted, delivery.key)
          /\ \E k \in DOMAIN admitted[delivery.key] :
                 admitted[delivery.key][k] = delivery.at

\* a strategy withdrawal with all four kinds of candidate, 59,000 ms after the
\* first one of its key: its Info alert is admitted again, its three critical
\* alerts are held back
C19_Witness ==
    /\ Handled
    /\ CandidateTypes = <<"high_frequency", "strategy_withdrawal",
                          "strategy_significant_pnl", "large_strategy_withdrawal">>
    /\ Admitted = {2}
    /\ \A i \in {3, 4} : decisions[i].had /\ now - decisions[i].last = 59000

(* C20: events are processed strictly in arrival order.  Every tracker     *)
(* update, rate-limit decision and delivery start happens in the step of   *)
(* the event that causes it: the step of one event records that event's    *)
(* key, takes the decisions on its candidates and starts the delivery of   *)
(* every admitted one before the next line is looked at, and a delivery of *)
(* an earlier event that settles in between touches none of these.         *)
C20_EventsInArrivalOrder ==
    [][LET tracked == {key \in DOMAIN recorded' :
                          ~Has(recorded, key) \/ recorded'[key] # recorded[key]}
           stamped == {key \in DOMAIN lastAlerts' :
                          /\ lastAlerts'[key] = now
                          /\ ~Has(lastAlerts, key) \/ lastAlerts[key] # now}
           started == inFlight' \ inFlight
       IN  /\ tracked # {} \/ stamped # {} \/ started # {} \/ decisions' # <<>> =>
                 /\ lastEvent' # <<>>
                 /\ nEvents' = nEvents + 1
                 /\ now' = now
                 /\ tracked = {FrequencyKey(lastEvent'[1])}
                 /\ \A key \in tracked :
                       recorded'[key] = Append(IF Has(recorded, key) THEN recorded[key]
                                               ELSE <<>>, now)
                 /\ \A i \in DOMAIN decisions' :
                       /\ decisions'[i].at = now
                       /\ decisions'[i].key = ClassKey(candidates'[i])
                       /\ candidates'[i].alert.vault = lastEvent'[1].eventData.vault
                 /\ started = {[key |-> decisions'[i].key, at |-> now] :
                                  i \in {j \in DOMAIN decisions' : ~decisions'[j].limited}}
                 /\ stamped \subseteq {delivery.key : delivery \in started}
           /\ lastEvent' = <<>> /\ nEvents' = nEvents =>
                 /\ tracked = {} /\ stamped = {} /\ started = {}
                 /\ decisions' = <<>>
           /\ settled' # <<>> =>
                 /\ inFlight' = inFlight \ {settled'[1].delivery}
                 /\ UNCHANGED <<eventCounts, lastAlerts, recorded, admitted, nEvents>>
      ]_vars

\* the second event starts its deliveries 1,000 ms after the first, while a
\* delivery of the first event is still in flight and another has settled
C20_Witness ==
    /\ Handled
    /\ nEvents = 2
    /\ sent # <<>>
    /\ \A j \in DOMAIN sent : [key |-> sent[j].key, at |-> now] \in inFlight
    /\ Cardinality({delivery \in inFlight : delivery.at = now - 1000}) = 1
    /\ Has(admitted, <<"critical", "large_vault_deposit", "vaultA">>)
    /\ admitted[<<"critical", "large_vault_deposit", "vaultA">>] = <<now - 1000>>
    /\ Has(admitted, <<"info", "vault_deposit", "vaultA">>)
    /\ admitted[<<"info", "vault_deposit", "vaultA">>][1] = now - 1000

(* C21: the timestamp of an admitted candidate is stored when it is        *)
(* admitted, before its delivery suspends.  A candidate whose class key    *)
(* has a delivery pending that was started less than the cooldown ago is   *)
(* suppressed, an admitted candidate's key holds now as soon as its        *)
(* delivery is in flight, and a delivery that settles, in whatever order,  *)
(* changes no stored timestamp.                                            *)
C21_StampedAtAdmission ==
    [][/\ \A i \in DOMAIN decisions' :
             LET dec == decisions'[i]
             IN  /\ (\E delivery \in inFlight :
                        delivery.key = dec.key /\ now - delivery.at < dec.delay)
                    => dec.limited
                 /\ ~dec.limited =>
                        /\ [key |-> dec.key, at |-> now] \in inFlight'
                        /\ Has(lastAlerts', dec.key)
                        /\ lastAlerts'[dec.key] = now
       /\ settled' # <<>> => lastAlerts' = lastAlerts
      ]_vars

\* a second deposit into vaultA, 1,000 ms after the first, suppressed while
\* both deliveries of the first are still pending
C21_Witness ==
    /\ Handled
    /\ nEvents = 2
    /\ Len(decisions) = 2
    /\ \A i \in DOMAIN decisions :
          /\ decisions[i].limited
          /\ [key |-> decisions[i].key, at |-> now - 1000] \in inFlight
          /\ lastAlerts[decisions[i].key] = now - 1000

(* C22: each admitted candidate causes exactly one delivery attempt and    *)
(* each suppressed candidate none.  A delivery that fails, by an exception *)
(* or by a response that is not ok, leaves flight without a new attempt    *)
(* and changes neither the tracker nor the limiter; after failures the     *)
(* next event is tracked, decided by the limiter and dispatched like any   *)
(* other.                                                                  *)
C22_OneAttemptNoRetry ==
    [][/\ lastEvent' # <<>> =>
             LET admits == {i \in DOMAIN decisions' : ~decisions'[i].limited}
             IN  /\ Len(sent') = Cardinality(admits)
                 /\ inFlight' \ inFlight =
                        {[key |-> decisions'[i].key, at |-> now] : i \in admits}
                 /\ Cardinality(inFlight' \ inFlight) = Cardinality(admits)
                 /\ inFlight \subseteq inFlight'
                 /\ Has(eventCounts', FrequencyKey(lastEvent'[1]))
                 /\ lastEvent'[1].eventName \in EventNames => candidates' # <<>>
                 /\ \A i \in DOMAIN decisions' :
                       decisions'[i].limited <=>
                           /\ Has(lastAlerts, decisions'[i].key)
                           /\ now - lastAlerts[decisions'[i].key] < decisions'[i].delay
       /\ settled' # <<>> =>
             /\ settled'[1].delivery \in inFlight
             /\ inFlight' = inFlight \ {settled'[1].delivery}
             /\ sent' = <<>>
             /\ UNCHANGED <<eventCounts, lastAlerts, recorded, admitted>>
       /\ lastEvent' = <<>> => inFlight' \subseteq inFlight
       /\ failed' \cap inFlight' = {}
      ]_vars

\* an event whose alerts are admitted and posted after both deliveries of the
\* event before it have failed
C22_Witness ==
    /\ Handled
    /\ nEvents = 2
    /\ Cardinality(failed) = 2
    /\ Len(sent) = 2
    /\ Cardinality(inFlight) = 2

\* the message of a candidate when formatted at time t
Format(candidate, t) ==
    IF candidate.severity = "info"
    THEN formatInfoMessage(candidate.alert, t)
    ELSE formatCriticalMessage(candidate.alert, t)

(* C23: the formatter is a pure function of the alert candidate:           *)
(* formatting the same candidate at two moments, here the start of the     *)
(* service and the time of the event, yields identical output.             *)
C23_FormatterPure ==
    \A i \in DOMAIN candidates : Format(candidates[i], now) = Format(candidates[i], 1)

\* the timestamps a sequence holds
Times(events) == {events[i] : i \in DOMAIN events}

\* no event was handled in the step and the frequency tracker changed: the
\* step is a run of the frequency cleanup that had something to remove
CleanupChangedTracker == lastEvent' = <<>> /\ eventCounts' # eventCounts

(* C24: after a frequency-cleanup run at time T every key remaining in the *)
(* tracker has a non-empty window whose timestamps are all > T - 60,000;   *)
(* the keys whose windows became empty are removed, and no timestamp       *)
(* > T - 60,000 is removed: each kept window is the old one without its    *)
(* expired timestamps, in the old order.                                   *)
C24_CleanupPostcondition ==
    [][CleanupChangedTracker =>
          /\ \A key \in DOMAIN eventCounts' :
                /\ Len(eventCounts'[key]) > 0
                /\ \A time \in Times(eventCounts'[key]) : time > now - 60000
          /\ DOMAIN eventCounts' \subseteq DOMAIN eventCounts
          /\ \A key \in DOMAIN eventCounts :
                LET live == {time \in Times(eventCounts[key]) : time > now - 60000}
                IN  /\ key \in DOMAIN eventCounts' <=> live # {}
                    /\ live # {} =>
                          eventCounts'[key] =
                              SelectSeq(eventCounts[key], LAMBDA time : time \in live)
      ]_vars

\* a cleanup at 60,001 ms took the timestamp 1 out of a window and kept
\* 30,001, and removed the key of another vault whose window became empty
C24_Witness ==
    /\ lastEvent = <<>>
    /\ now = 60001
    /\ \E key \in DOMAIN eventCounts :
          /\ eventCounts[key] = <<30001>>
          /\ recorded[key] = <<1, 30001>>
    /\ \E key \in DOMAIN recorded : ~Has(eventCounts, key) /\ recorded[key] = <<1>>

\* the admissions of a key, whether or not the limiter still stores one
AdmissionsOf(key) == IF Has(admitted, key) THEN admitted[key] ELSE <<>>

\* the admissions of the key of a decision of this step that were made before
\* the decision: an admitting decision appended its own admission
AdmissionsBefore(dec) ==
    IF dec.limited
    THEN AdmissionsOf(dec.key)
    ELSE SubSeq(AdmissionsOf(dec.key), 1, Len(AdmissionsOf(dec.key)) - 1)

(* C25: the removal of rate-limit entries older than 24 hours never        *)
(* changes a rate-limit decision: with the cleanup running at any point    *)
(* between events, any number of times or never, a candidate is limited    *)
(* exactly when its key was admitted before and the last admission is less *)
(* than the key's cooldown old, which is the decision a limiter that never *)
(* forgets an entry takes.                                                 *)
C25_CleanupKeepsDecisions ==
    \A i \in DOMAIN decisions :
        LET dec   == decisions[i]
            prior == AdmissionsBefore(dec)
        IN  /\ dec.limited <=>
                  (prior # <<>> /\ now - Last(prior) < CooldownOf(dec.key))
            /\ ~dec.limited => Last(AdmissionsOf(dec.key)) = now

\* a decision on a key that was admitted before and whose entry the cleanup
\* had removed from the limiter
C25_Witness ==
    \E i \in DOMAIN decisions :
        /\ ~decisions[i].had
        /\ AdmissionsBefore(decisions[i]) # <<>>

\* what trackEventFrequency computes for an event when the frequency cleanup
\* runs immediately before it
TrackedAfterCleanup(event) ==
    trackEventFrequency(Sending(lastAlerts), cleanEventCounts(eventCounts, now), event, now)

Unexpired(ec, t) ==
    LET live(key) == SelectSeq(ec[key], LAMBDA time : time > t - 60000)
        kept      == {key \in DOMAIN ec : live(key) # <<>>}
    IN  [key \in kept |-> live(key)]

\* the limiter without the entries that are more than 24 hours old at t
Younger(la, t) ==
    LET kept == {key \in DOMAIN la : t - la[key] <= 86400000}
    IN  [key \in kept |-> la[key]]

(* C27: the maintenance tasks touch disjoint state.  A step that handles   *)
(* no event changes at most one of the two maps: when the frequency map    *)
(* changes, the rate-limit map is untouched and the new frequency map is   *)
(* determined by the old one and the clock alone; when the rate-limit map  *)
(* changes, the frequency map is untouched and the new rate-limit map is   *)
(* determined by the old one and the clock alone; the heartbeat, like the  *)
(* passing of time, changes neither.                                       *)
C27_MaintenanceDisjoint ==
    [][lastEvent' = <<>> =>
          /\ eventCounts' # eventCounts =>
                /\ lastAlerts' = lastAlerts
                /\ eventCounts' = Unexpired(eventCounts, now)
          /\ lastAlerts' # lastAlerts =>
                /\ eventCounts' = eventCounts
                /\ lastAlerts' = Younger(lastAlerts, now)
      ]_vars

\* both cleanups have run and each removed a key of its own map while the
\* other map keeps a live key
C27_Witness ==
    /\ lastEvent = <<>>
    /\ \E key \in DOMAIN recorded : ~Has(eventCounts, key)
    /\ \E key \in DOMAIN admitted : ~Has(lastAlerts, key)
    /\ eventCounts # EmptyMap
    /\ lastAlerts # EmptyMap

\* the window a key had in a tracker, empty when the key is absent
WindowOf(ec, key) == IF Has(ec, key) THEN ec[key] ELSE <<>>

(* C28, as claimed: in every reachable state each key's stored window is   *)
(* in strictly increasing order, and all its timestamps lie within 60,000  *)
(* ms of the key's last recorded event.                                    *)
C28_WindowStrictlyIncreasing ==
    \A key \in DOMAIN eventCounts :
        /\ \A i, j \in DOMAIN eventCounts[key] :
              i < j => eventCounts[key][i] < eventCounts[key][j]
        /\ \A time \in Times(eventCounts[key]) :
              time > Last(recorded[key]) - 60000

(* C28, amended: each key's stored window is in non-decreasing order (two  *)
(* events of a key handled in the same millisecond store that timestamp    *)
(* twice), it ends with the key's last recorded event, and whenever a      *)
(* step writes a key's window, all timestamps of the written window are    *)
(* within 60,000 ms of the time of that write.                             *)
C28_WindowOrderedWithinWrite ==
    [][\A key \in DOMAIN eventCounts' :
          /\ \A i, j \in DOMAIN eventCounts'[key] :
                i < j => eventCounts'[key][i] <= eventCounts'[key][j]
          /\ Len(eventCounts'[key]) > 0
          /\ Last(eventCounts'[key]) = Last(recorded'[key])
          /\ eventCounts'[key] # WindowOf(eventCounts, key) =>
                \A time \in Times(eventCounts'[key]) :
                    time > now' - 60000 /\ time <= now'
      ]_vars

\* two events of a key handled in the same millisecond, 61,001, are stored
\* as equal timestamps by a write that dropped the key's expired timestamp 1
C28_Witness ==
    \E key \in DOMAIN eventCounts :
        /\ eventCounts[key] = <<61001, 61001>>
        /\ recorded[key][1] = 1

(* C29: event processing never removes a key from the frequency tracker.   *)
(* After an event is recorded every key stored before is still stored and  *)
(* the event's own key has a non-empty window that contains the current    *)
(* timestamp; a key disappears only in a step that handles no event and    *)
(* leaves the tracker as the frequency cleanup does.                       *)
C29_OnlyCleanupRemovesKeys ==
    [][/\ lastEvent' # <<>> =>
             /\ DOMAIN eventCounts \subseteq DOMAIN eventCounts'
             /\ Has(eventCounts', FrequencyKey(lastEvent'[1]))
             /\ now' \in Times(eventCounts'[FrequencyKey(lastEvent'[1])])
       /\ ~(DOMAIN eventCounts \subseteq DOMAIN eventCounts') =>
             /\ lastEvent' = <<>>
             /\ eventCounts' = Unexpired(eventCounts, now)
      ]_vars

\* an event has just been recorded while another key, whose only timestamp
\* expired, is still stored
C29_Witness ==
    /\ Handled
    /\ \E key \in DOMAIN eventCounts :
          /\ key # TheKey
          /\ \A time \in Times(eventCounts[key]) : time <= now - 60000

\* one large move of every handled kind: between them the classifier
\* produces every info kind, every large kind and the significant PnL
KindEvents ==
    {MakeEvent(name, "vaultA", <<150>>, <<1000>>, <<1200>>) :
        name \in {"depositVaultEvent", "withdrawVaultEvent"} \cup StrategyNames}

\* the heading of the layout each kind of candidate has in the formatters
LayoutOf(type) ==
    CASE type = "vault_deposit" -> <<"Vault Deposit">>
      [] type = "vault_withdrawal" -> <<"Vault Withdrawal">>
      [] type = "strategy_deposit" -> <<"Strategy Deposit">>
      [] type = "strategy_withdrawal" -> <<"Strategy Withdrawal">>
      [] type = "direct_strategy_withdrawal" -> <<"Direct Strategy Withdrawal">>
      [] type = "large_vault_deposit" -> <<"LARGE", "VAULT", "DEPOSIT">>
      [] type = "large_vault_withdrawal" -> <<"LARGE", "VAULT", "WITHDRAWAL">>
      [] type = "large_strategy_deposit" -> <<"LARGE", "STRATEGY", "DEPOSIT">>
      [] type = "large_strategy_withdrawal" -> <<"LARGE", "STRATEGY", "WITHDRAWAL">>
      [] type = "strategy_significant_pnl" -> <<"STRATEGY SIGNIFICANT PnL">>
      [] type = "high_frequency" -> <<"HIGH FREQUENCY ACTIVITY">>
      [] OTHER -> <<>>

\* the headings of the two generic fallbacks
Fallbacks == {<<"Vault Event">>, <<"UNKNOWN CRITICAL EVENT">>}

\* the heading of a formatted message: the info formatter's is one string,
\* and the significant-PnL layout is the same for a gain and a loss
HeadingOf(severity, text) ==
    IF severity = "info" THEN <<text.title>>
    ELSE IF text.title[1] = "STRATEGY SIGNIFICANT PnL" THEN <<text.title[1]>>
    ELSE text.title

\* a type that no kind of candidate has
OtherType == "maintenance"

\* every candidate of the sequence is rendered with the layout of its kind
OwnLayout(cands) ==
    \A i \in DOMAIN cands :
        LET candidate == cands[i]
            heading   == HeadingOf(candidate.severity, Format(candidate, now))
        IN  /\ candidate.severity = "info" <=> candidate.alert.type \in InfoTypes
            /\ heading = LayoutOf(candidate.alert.type)
            /\ heading \notin Fallbacks \cup {<<>>}

(* C30: every candidate the classifier produces is rendered with the       *)
(* layout of its own kind: an info candidate with the layout of its info   *)
(* kind, a critical candidate with the large-transaction layout of its     *)
(* context and action, the significant-PnL layout or the high-frequency    *)
(* layout.  This holds for the candidates of the event just handled and    *)
(* for those any handled kind of event would produce next; the generic     *)
(* fallback of either formatter is in no message that was sent, and is     *)
(* what each formatter produces for a type that is none of the kinds.      *)
C30_EveryCandidateOwnLayout ==
    /\ OwnLayout(candidates)
    /\ \A event \in KindEvents :
          OwnLayout(handleVaultEvent(lastAlerts, eventCounts, event, now).st.candidates)
    /\ \A i \in DOMAIN sent :
          HeadingOf(sent[i].key[1], sent[i].text) \notin Fallbacks
    /\ \A severity \in {"info", "critical"} :
          HeadingOf(severity, Format([severity |-> severity,
                                      alert |-> [type |-> OtherType]], now))
              \in Fallbacks

\* the alert types of the candidates the events would produce next
TypesProducedBy(events) ==
    UNION {LET cands == handleVaultEvent(lastAlerts, eventCounts, event, now).st.candidates
           IN  {cands[i].alert.type : i \in DOMAIN cands} : event \in events}

\* the tenth withdrawal from a strategy in a burst: an info, a large
\* transaction, a significant-PnL and a high-frequency candidate at once,
\* in a state where the next event can produce each of the other kinds
C30_Witness ==
    /\ InfoTypes \cup LargeTypes \cup {"strategy_significant_pnl"}
           \subseteq TypesProducedBy(KindEvents)
    /\ Len(candidates) = 4
    /\ {candidates[i].alert.type : i \in DOMAIN candidates} =
           {"high_frequency", "strategy_withdrawal", "large_strategy_withdrawal",
            "strategy_significant_pnl"}
    /\ \E i \in DOMAIN sent :
          HeadingOf(sent[i].key[1], sent[i].text) = <<"HIGH FREQUENCY ACTIVITY">>

\* the process ended with a failure
Failed == lifecycle # <<>> /\ Last(lifecycle) = "exit(1)"

(* C31: an unavailable ingestion source at startup is the only failure     *)
(* that terminates the process, and it does so before any watcher or timer *)
(* is installed: whenever the process has ended with a failure, the log    *)
(* file did not exist and nothing but the exit was done.  A read error, a  *)
(* malformed line, degenerate arithmetic or a failed delivery happens only *)
(* after the start, when the log file existed, so none of them can have    *)
(* ended the process.                                                      *)
C31_OnlyMissingLogTerminates ==
    Failed => ~environment.logFile /\ lifecycle = <<"exit(1)">>

\* a step of the running process never ends it with a failure
C31_RunningNeverFails == [][Running => ~Failed']_vars

\* the process is running after a line that did not parse, an event with a
\* degenerate payload and a delivery that failed
C31_StillRunning ==
    /\ Running
    /\ failed # {}
    /\ \E event \in EmptyVaultEvents : Has(recorded, FrequencyKey(event))
    /\ lastLine = <<NotJson>>

(* C32: on SIGINT or SIGTERM the service stops watching the log before it  *)
(* terminates, and after the shutdown nothing happens any more: the step   *)
(* that ends the process with code 0 appends the signal, the unwatch and    *)
(* the exit, in this order, processes no line, changes neither the tracker *)
(* nor the limiter and initiates no delivery, and no step at all is taken  *)
(* once the process has exited.                                            *)
C32_ShutdownReleasesAndStops ==
    [][/\ ~Exited
       /\ Exited' /\ lifecycle'[Len(lifecycle')] = "exit(0)" =>
             /\ \E signal \in {"SIGINT", "SIGTERM"} :
                   lifecycle' = lifecycle \o <<signal, "unwatch", "exit(0)">>
             /\ lastLine' = <<>> /\ lastEvent' = <<>> /\ sent' = <<>>
             /\ UNCHANGED <<eventCounts, lastAlerts, inFlight, recorded, admitted>>
      ]_vars

\* the process has shut down after handling an event, with the tail
\* unwatched and a delivery still in flight
C32_Witness ==
    /\ Exited
    /\ Len(lifecycle) = 6
    /\ lifecycle[5] = "unwatch"
    /\ lifecycle[6] = "exit(0)"
    /\ recorded # EmptyMap
    /\ \E delivery \in inFlight : delivery.key # <<"test">>

\* the failed deliveries of a key that are younger than the key's cooldown
FailedWithinCooldown(key) ==
    {delivery \in failed : delivery.key = key /\ now - delivery.at < CooldownOf(key)}

(* C33: a failed delivery still consumes the cooldown: a candidate whose   *)
(* class key has a failed delivery younger than the key's cooldown is      *)
(* suppressed, and no alert of a class key is admitted less than the       *)
(* cooldown after an admitted alert of that key whose delivery failed.     *)
C33_FailedDeliveryConsumesCooldown ==
    /\ \A i \in DOMAIN decisions :
          FailedWithinCooldown(decisions[i].key) # {} => decisions[i].limited
    /\ \A delivery \in failed :
          \A time \in Times(AdmissionsOf(delivery.key)) :
              time > delivery.at => time - delivery.at >= CooldownOf(delivery.key)

\* a candidate suppressed after the delivery of the last admitted alert of
\* its class key has failed
C33_Witness ==
    \E i \in DOMAIN decisions :
        /\ decisions[i].limited
        /\ \E delivery \in FailedWithinCooldown(decisions[i].key) :
              delivery.at = decisions[i].last

\* the class key of the StrategyPnL alerts of a vault
PnlKey(vault) == <<"critical", "strategy_significant_pnl", Template(vault)>>

(* C34: the StrategyPnL candidates of all three strategy handlers and of   *)
(* all strategies of a vault share one class key, made of the severity,    *)
(* the type strategy_significant_pnl and the vault: such a candidate is    *)
(* suppressed exactly when a StrategyPnL alert of its vault, from whatever *)
(* event kind or strategy, was admitted less than 300,000 ms before.       *)
C34_PnlKeySharedPerVault ==
    \A i \in DOMAIN decisions :
        candidates[i].alert.type = "strategy_significant_pnl" =>
            LET dec   == decisions[i]
                prior == AdmissionsBefore(dec)
            IN  /\ dec.key = PnlKey(candidates[i].alert.vault)
                /\ dec.key = PnlKey(TheEvent.eventData.vault)
                /\ dec.limited <=> (prior # <<>> /\ now - Last(prior) < 300000)

\* the first direct strategy withdrawal of a vault, on strategy3, has its
\* StrategyPnL candidate suppressed by the alert admitted for an event of
\* another kind on another strategy
C34_Witness ==
    /\ Handled
    /\ TheEvent.eventName = "directWithdrawStrategyEvent"
    /\ TheEvent.eventData.strategy = <<"strategy3">>
    /\ recorded[TheKey] = <<now>>
    /\ \E i \in DOMAIN decisions :
          /\ candidates[i].alert.type = "strategy_significant_pnl"
          /\ candidates[i].alert.strategy = <<"strategy3">>
          /\ decisions[i].limited

\* the class key of the HighFrequency alerts of a vault
FrequencyAlertKey(vault) == <<"critical", "high_frequency", Template(vault)>>

(* C35: the tracker counts per event kind and vault, but the class key of  *)
(* a HighFrequency candidate is made of the severity, the type             *)
(* high_frequency and the vault only: the candidate is suppressed exactly  *)
(* when a HighFrequency alert of its vault, for whatever event kind, was   *)
(* admitted less than 300,000 ms before.                                   *)
C35_FrequencyKeyPerVault ==
    \A i \in DOMAIN decisions :
        candidates[i].alert.type = "high_frequency" =>
            LET dec   == decisions[i]
                prior == AdmissionsBefore(dec)
            IN  /\ candidates[i].alert.eventType = TheEvent.eventName
                /\ dec.key = FrequencyAlertKey(TheEvent.eventData.vault)
                /\ dec.limited <=> (prior # <<>> /\ now - Last(prior) < 300000)

\* the tenth withdrawal makes the first HighFrequency candidate of its kind,
\* and the alert admitted for the deposits of the same vault suppresses it
C35_Witness ==
    /\ Handled
    /\ TheEvent.eventName = "withdrawVaultEvent"
    /\ Len(recorded[TheKey]) = 10
    /\ Len(recorded[<<"depositVaultEvent", "vaultA">>]) = 10
    /\ \E i \in DOMAIN decisions :
          /\ candidates[i].alert.type = "high_frequency"
          /\ decisions[i].limited

\* the tracker holds the key and every timestamp of its window has expired
Expired(key) ==
    /\ Has(eventCounts, key)
    /\ \A time \in Times(eventCounts[key]) : time <= now - 60000

\* the limiter holds the key with a timestamp more than 24 hours old
Stale(key) == Has(lastAlerts, key) /\ now - lastAlerts[key] > 86400000

\* the keys the tracker and the limiter can hold for the idle events
IdleTrackerKeys == {FrequencyKey(event) : event \in IdleEvents}
IdleClassKeys ==
    {<<"info", "vault_deposit", vault>> : vault \in Vaults}
        \cup {<<"critical", "large_vault_deposit", vault>> : vault \in Vaults}

(* C36: under fair firing of the maintenance timers neither map keeps an   *)
(* idle key for ever: a tracker key whose timestamps have all expired is   *)
(* eventually removed, unless an event of the key arrives first, and a     *)
(* limiter entry more than 24 hours old is eventually removed, unless an   *)
(* alert of its key is admitted first.  The first cleanup run that changes *)
(* its map after a key has expired removes the key.                        *)
C36_IdleKeysEventuallyRemoved ==
    /\ \A key \in IdleTrackerKeys : Expired(key) ~> ~Expired(key)
    /\ \A key \in IdleClassKeys : Stale(key) ~> ~Stale(key)
    /\ [][lastEvent' = <<>> =>
            /\ eventCounts' # eventCounts =>
                  \A key \in IdleTrackerKeys : Expired(key) => ~Has(eventCounts', key)
            /\ lastAlerts' # lastAlerts =>
                  \A key \in IdleClassKeys : Stale(key) => ~Has(lastAlerts', key)
         ]_vars

\* both cleanups have removed an idle key: a tracker key that was recorded
\* and a limiter key that was admitted are gone, with no event since
C36_Witness ==
    /\ lastEvent = <<>>
    /\ \E key \in IdleTrackerKeys : Has(recorded, key) /\ ~Has(eventCounts, key)
    /\ \E key \in IdleClassKeys : Has(admitted, key) /\ ~Has(lastAlerts, key)

(* C37: every candidate that passes the rate limiter is delivered, an Info *)
(* notification with disable_notification set and a critical one (large    *)
(* transaction, StrategyPnL, HighFrequency) with it cleared: the messages  *)
(* sent for an event are those of its admitted candidates, in order, each  *)
(* with the flag of its candidate's kind.                                  *)
C37_SilentFlagByKind ==
    /\ Len(sent) = Cardinality(Admitted)
    /\ \A i \in DOMAIN sent :
          \E j \in Admitted :
              /\ Cardinality({k \in Admitted : k <= j}) = i
              /\ sent[i].key = decisions[j].key
              /\ candidates[j].alert.type \in InfoTypes =>
                    sent[i].disable_notification = TRUE
              /\ candidates[j].alert.type \in
                      LargeTypes \cup {"strategy_significant_pnl", "high_frequency"} =>
                    sent[i].disable_notification = FALSE
              /\ candidates[j].alert.type \in
                      InfoTypes \cup LargeTypes
                          \cup {"strategy_significant_pnl", "high_frequency"}

\* one event sends an Info notification silently and a HighFrequency
\* notification audibly, while its other candidates are suppressed
C37_Witness ==
    /\ \E i \in DOMAIN sent :
          sent[i].key[2] = "high_frequency" /\ ~sent[i].disable_notification
    /\ \E i \in DOMAIN sent :
          sent[i].key[2] \in InfoTypes /\ sent[i].disable_notification
    /\ Cardinality(Admitted) < Len(candidates)

(* C38: recording an event modifies only the window of the event's own key *)
(* (eventName, vault): the step keeps every other key with the window it   *)
(* had, adds no key but the event's own, and the count it reads is that of *)
(* the own key's window with the new timestamp.                            *)
C38_RecordingTouchesOwnKeyOnly ==
    [][lastEvent' # <<>> =>
          LET own == FrequencyKey(lastEvent'[1])
          IN  /\ DOMAIN eventCounts' = DOMAIN eventCounts \cup {own}
              /\ \A key \in DOMAIN eventCounts \ {own} :
                    eventCounts'[key] = eventCounts[key]
              /\ rate' = Len(WindowOf(eventCounts, own)) + 1
      ]_vars

\* the first event of a key is recorded while another key of the same vault
\* holds a window of several timestamps
C38_Witness ==
    /\ Handled
    /\ eventCounts[TheKey] = <<now>>
    /\ \E key \in DOMAIN eventCounts :
          /\ key # TheKey
          /\ key[2] = TheKey[2]
          /\ Len(eventCounts[key]) >= 2

=============================================================================
